---- MODULE Spec2Model ----
(***************************************************************************)
(* Order lifecycle and inventory logic of the retailer backend.            *)
(*                                                                         *)
(* The store is the relational schema of the setup guide: products and     *)
(* orders are tables keyed by ids that are never reused, orders.product_id *)
(* is a foreign key with ON DELETE CASCADE.  Every `await supabase...` of  *)
(* a controller is one atomic store operation; the code that follows it up *)
(* to the next await runs in the same step.  Requests interleave at the    *)
(* awaits.  Prices are amounts in the smallest currency unit, so that      *)
(* DECIMAL(10,2) arithmetic is exact integer arithmetic.                   *)
(***************************************************************************)
EXTENDS Integers, FiniteSets, Sequences, TLC

\* ---------------------------------------------------------------- bounds
MaxProducts == 2      \* product rows ever inserted
MaxOrders   == 2      \* order rows ever inserted
MaxRequests == 4      \* requests ever received
MaxSlots    == 2      \* requests in flight at the same time
MaxStock    == 2      \* largest stock value a request body carries
MaxQty      == 2      \* largest quantity a request body carries
MaxPrice    == 2      \* largest price a request body carries

Tenants  == {"A", "B"}
ProdIds  == 1..MaxProducts
OrderIds == 1..MaxOrders
Slots    == 1..MaxSlots
Prices   == 1..MaxPrice
Stocks   == 0..MaxStock
Qtys     == 1..MaxQty

\* validators.js: the six status values accepted by validateOrderStatus
OrderStatuses == {"pending", "confirmed", "processing", "shipped", "delivered", "cancelled"}

VARIABLES
  products,       \* table products: id -> row
  orders,         \* table orders:   id -> row
  nextProductId,  \* ids are generated by the store and never reused
  nextOrderId,
  reqs,           \* slot -> the request in flight in it (position and locals)
  reply,          \* the response sent last
  started,        \* number of requests received so far
  ledger,         \* history of the products written by createOrder only:
                  \* product id -> stock at insertion, quantity of the orders created
  users,          \* identities of the identity provider: user id -> email
  retailers       \* table retailers: id -> row

vars == <<products, orders, nextProductId, nextOrderId, reqs, reply, started, ledger,
          users, retailers>>

\* ------------------------------------------------------------ store rows
NoProduct == [retailer_id |-> "", price |-> 0, stock |-> 0, is_active |-> FALSE]
NoOrder   == [retailer_id |-> "", product_id |-> 0, quantity |-> 0, unit_price |-> 0,
              total_amount |-> 0, status |-> ""]
NoBody    == [price |-> <<>>, stock |-> <<>>, is_active |-> <<>>, retailer_id |-> <<>>]

Idle == [pc |-> "idle", op |-> "", retailer |-> "", id |-> 0, quantity |-> 0,
         product |-> NoProduct, order |-> NoOrder, solo |-> TRUE]

\* the two tenants are registered: an identity and a retailers row each
Registered == ("uA" :> "a@shop") @@ ("uB" :> "b@shop")

RegisteredRetailers ==
  ("A" :> [user_id |-> "uA", email |-> "a@shop", name |-> "Shop", theme |-> "default"]) @@
  ("B" :> [user_id |-> "uB", email |-> "b@shop", name |-> "Shop", theme |-> "default"])

NoReply == [op |-> "", resp |-> 0, message |-> "", data |-> {}]

InFlight(r) == reqs[r].pc # "idle"

\* a request is taken by the first slot that is free
FreeSlot(r) == /\ ~InFlight(r)
               /\ \A s \in Slots : s < r => InFlight(s)
               /\ started < MaxRequests

\* a step of slot r: every other request in flight has no longer run on its own
Others(r, rec) == [s \in Slots |-> IF s = r THEN rec
                                   ELSE IF InFlight(s) THEN [reqs[s] EXCEPT !.solo = FALSE]
                                   ELSE reqs[s]]

New(op, t, id) == [Idle EXCEPT !.op = op, !.retailer = t, !.id = id]

\* res.status(code).json({message, data}) ends the request; data is recorded
\* as the set of the owners (retailer_id) of the rows in the response
Respond(r, rec, code, msg, data) ==
  /\ reqs' = Others(r, Idle)
  /\ reply' = [op |-> rec.op, resp |-> code, message |-> msg, data |-> data]

\* the request goes on to its next await
Continue(r, rec) ==
  /\ reqs' = Others(r, rec)
  /\ UNCHANGED reply

DeleteRow(table, id) == [i \in DOMAIN table \ {id} |-> table[i]]

\* ---------------------------------------------------------- errorHandler
\* variant of the handler that answers every error with the default status
errorHandler_Default(code, type, statusCode) == 500

\* middleware/errorHandler.js: status code answered for an error thrown by a
\* controller; code is the store's error code ("" when the error has none)
errorHandler(code, type, statusCode) ==
  LET byCode == IF code = "" THEN 500
                ELSE IF code = "23505" THEN 409
                ELSE IF code = "23503" THEN 400
                ELSE IF code = "23502" THEN 400
                ELSE 400
      byType == IF type = "validation" THEN 400 ELSE byCode
  IN  IF statusCode # 0 THEN statusCode ELSE byType

\* the message answered with it; message is the message of the error itself
errorMessage(code, type, statusCode, message) ==
  LET byCode == IF code = "" THEN "Internal Server Error"
                ELSE IF code = "23505" THEN "Resource already exists"
                ELSE IF code = "23503" THEN "Invalid reference - related resource not found"
                ELSE IF code = "23502" THEN "Required field is missing"
                ELSE "Database operation failed"
      byType == IF type = "validation" THEN "Validation failed" ELSE byCode
  IN  IF statusCode # 0 THEN message ELSE byType

\* ---------------------------------------------------------- ledger
\* a write to product pid that is not createOrder's ends its history
Touch(pid) == [p \in DOMAIN ledger \ {pid} |-> ledger[p]]

\* ---------------------------------------------------------- createProduct
\* POST /products: parseFloat(price), parseInt(stock) || 0, is_active true
createProduct(r, t, price, stock) ==
  /\ FreeSlot(r)
  /\ nextProductId <= MaxProducts
  /\ products' = (nextProductId :> [retailer_id |-> t, price |-> price, stock |-> stock,
                                    is_active |-> TRUE]) @@ products
  /\ ledger' = (nextProductId :> [stock0 |-> stock, sold |-> 0]) @@ ledger
  /\ nextProductId' = nextProductId + 1
  /\ Respond(r, New("createProduct", t, nextProductId), 201,
             "Product created successfully", {t})
  /\ started' = started + 1
  /\ UNCHANGED <<orders, nextOrderId, users, retailers>>

\* ---------------------------------------------------------- getProduct
\* GET /products/:id: select where id = :id and retailer_id = tenant
getProduct(r, t, pid) ==
  /\ FreeSlot(r)
  /\ started' = started + 1
  /\ LET rec   == New("getProduct", t, pid)
         found == pid \in DOMAIN products /\ products[pid].retailer_id = t
     IN  IF found
         THEN Respond(r, rec, 200, "", {products[pid].retailer_id})
         ELSE Respond(r, rec, 404, "Product not found", {})
  /\ UNCHANGED <<products, orders, nextProductId, nextOrderId, ledger, users, retailers>>

\* ---------------------------------------------------------- createOrder
\* variants of the stock test: one that lets quantity = stock + 1 through, and
\* one that tests nothing
InsufficientStock_OffByOne(stock, quantity) == stock + 1 < quantity
InsufficientStock_Never(stock, quantity) == FALSE

\* the stock test of step 2
InsufficientStock(stock, quantity) == stock < quantity

\* variant of the total that forgets the quantity
TotalAmount_UnitOnly(unitPrice, quantity) == unitPrice

\* step 3: total amount of the order
TotalAmount(unitPrice, quantity) == unitPrice * quantity

\* variant of step 5 that writes the stock back as it was read
StockAfterOrder_Keep(stock, quantity) == stock

\* the stock written by step 5
StockAfterOrder(stock, quantity) == stock - quantity

\* variant of the product filter that forgets is_active
Available_AnyStatus(t, pid) ==
  /\ pid \in DOMAIN products
  /\ products[pid].retailer_id = t

\* step 1: the filter of the product select: id, retailer_id, is_active = true
Available(t, pid) ==
  /\ pid \in DOMAIN products
  /\ products[pid].retailer_id = t
  /\ products[pid].is_active

\* steps 1-3: select the product (id, retailer_id, is_active = true), 404 when
\* no row matches, 400 when the stock read is less than the quantity
createOrder_fetch(r, t, pid, q) ==
  /\ FreeSlot(r)
  /\ started' = started + 1
  /\ LET rec   == [New("createOrder", t, pid) EXCEPT !.quantity = q]
         found == Available(t, pid)
     IN  IF ~found
         THEN Respond(r, rec, 404, "Product not found or not available", {})
         ELSE IF InsufficientStock(products[pid].stock, q)
              THEN Respond(r, rec, 400, "Insufficient stock", {})
              ELSE Continue(r, [rec EXCEPT !.pc = "co_insert", !.product = products[pid]])
  /\ UNCHANGED <<products, orders, nextProductId, nextOrderId, ledger, users, retailers>>

\* step 4: insert the order row; the foreign key rejects a product id with no
\* row (error 23503), which the controller throws to the error handler
createOrder_insert(r) ==
  /\ reqs[r].pc = "co_insert"
  /\ nextOrderId <= MaxOrders
  /\ LET rec == reqs[r]
     IN  IF rec.id \in DOMAIN products
         THEN /\ orders' = (nextOrderId :>
                   [retailer_id  |-> rec.retailer,
                    product_id   |-> rec.id,
                    quantity     |-> rec.quantity,
                    unit_price   |-> rec.product.price,
                    total_amount |-> TotalAmount(rec.product.price, rec.quantity),
                    status       |-> "pending"]) @@ orders
              /\ nextOrderId' = nextOrderId + 1
              /\ Continue(r, [rec EXCEPT !.pc = "co_stock"])
         ELSE /\ Respond(r, rec, errorHandler("23503", "", 0),
                         errorMessage("23503", "", 0, "store"), {})
              /\ UNCHANGED <<orders, nextOrderId>>
  /\ UNCHANGED <<products, nextProductId, started, ledger, users, retailers>>

\* step 5: update products set stock = (stock read in step 1) - quantity
\* where id = product_id, then 201 with the order row
createOrder_stock(r) ==
  /\ reqs[r].pc = "co_stock"
  /\ LET rec == reqs[r]
         pid == rec.id
     IN  /\ products' = IF pid \in DOMAIN products
                        THEN [products EXCEPT ![pid].stock =
                                StockAfterOrder(rec.product.stock, rec.quantity)]
                        ELSE products
         /\ ledger' = IF pid \in DOMAIN ledger
                      THEN [ledger EXCEPT ![pid].sold = @ + rec.quantity]
                      ELSE ledger
         /\ Respond(r, rec, 201, "Order created successfully", {rec.retailer})
  /\ UNCHANGED <<orders, nextProductId, nextOrderId, started, users, retailers>>

\* ---------------------------------------------------------- updateProduct
\* request bodies that pass validateProductUpdate: price and stock, when
\* present, are non-negative numbers; no other key is checked or removed
Opt(S) == {<<>>} \cup {<<x>> : x \in S}
NumKeys(b) == Len(b.price) + Len(b.stock) + Len(b.is_active) + Len(b.retailer_id)
Bodies == {b \in [price : Opt(Prices), stock : Opt(Stocks), is_active : Opt(BOOLEAN),
                  retailer_id : Opt(Tenants)] : NumKeys(b) = 1}

\* cleanedData: every key of the body is copied into the update
cleanedData(row, body) ==
  [retailer_id |-> IF body.retailer_id = <<>> THEN row.retailer_id ELSE body.retailer_id[1],
   price       |-> IF body.price = <<>> THEN row.price ELSE body.price[1],
   stock       |-> IF body.stock = <<>> THEN row.stock ELSE body.stock[1],
   is_active   |-> IF body.is_active = <<>> THEN row.is_active ELSE body.is_active[1]]

\* PUT /products/:id: update ... where id = :id and retailer_id = tenant,
\* answered with the updated row
updateProduct(r, t, pid, body) ==
  /\ FreeSlot(r)
  /\ started' = started + 1
  /\ LET rec   == New("updateProduct", t, pid)
         found == pid \in DOMAIN products /\ products[pid].retailer_id = t
     IN  IF found
         THEN /\ products' = [products EXCEPT ![pid] = cleanedData(@, body)]
              /\ ledger' = Touch(pid)
              /\ Respond(r, rec, 200, "Product updated successfully",
                         {products'[pid].retailer_id})
         ELSE /\ Respond(r, rec, 404, "Product not found", {})
              /\ UNCHANGED <<products, ledger>>
  /\ UNCHANGED <<orders, nextProductId, nextOrderId, users, retailers>>

\* ---------------------------------------------------------- toggleProductStatus
\* select is_active where id and retailer_id match; 404 when no row
toggleProductStatus_fetch(r, t, pid) ==
  /\ FreeSlot(r)
  /\ started' = started + 1
  /\ LET rec   == New("toggleProductStatus", t, pid)
         found == pid \in DOMAIN products /\ products[pid].retailer_id = t
     IN  IF found
         THEN Continue(r, [rec EXCEPT !.pc = "tg_update",
                                      !.product = [NoProduct EXCEPT !.is_active =
                                                     products[pid].is_active]])
         ELSE Respond(r, rec, 404, "Product not found", {})
  /\ UNCHANGED <<products, orders, nextProductId, nextOrderId, ledger, users, retailers>>

\* variant of the toggle that always deactivates
newStatus_Off(is_active) == FALSE

\* const newStatus = !currentProduct.is_active
newStatus(is_active) == ~is_active

\* update is_active = not (value read) where id and retailer_id match; when no
\* row matches, .single() fails with PGRST116 and the controller throws it
toggleProductStatus_update(r) ==
  /\ reqs[r].pc = "tg_update"
  /\ LET rec   == reqs[r]
         pid   == rec.id
         found == pid \in DOMAIN products /\ products[pid].retailer_id = rec.retailer
     IN  IF found
         THEN /\ products' = [products EXCEPT ![pid].is_active =
                                 newStatus(rec.product.is_active)]
              /\ ledger' = Touch(pid)
              /\ Respond(r, rec, 200, "Product status changed", {products[pid].retailer_id})
         ELSE /\ Respond(r, rec, errorHandler("PGRST116", "", 0),
                         errorMessage("PGRST116", "", 0, "store"), {})
              /\ UNCHANGED <<products, ledger>>
  /\ UNCHANGED <<orders, nextProductId, nextOrderId, started, users, retailers>>

\* ---------------------------------------------------------- deleteProduct
\* variant of the guard that finds no order
HasOrders_Never(pid) == FALSE

\* select id from orders where product_id = :id limit 1 (no retailer filter)
HasOrders(pid) == \E o \in DOMAIN orders : orders[o].product_id = pid

deleteProduct_check(r, t, pid) ==
  /\ FreeSlot(r)
  /\ started' = started + 1
  /\ LET rec == New("deleteProduct", t, pid)
     IN  IF HasOrders(pid)
         THEN Respond(r, rec, 409, "Cannot delete product that has existing orders", {})
         ELSE Continue(r, [rec EXCEPT !.pc = "dp_delete"])
  /\ UNCHANGED <<products, orders, nextProductId, nextOrderId, ledger, users, retailers>>

\* delete from products where id = :id and retailer_id = tenant; the orders
\* that reference a deleted product are deleted with it (ON DELETE CASCADE)
deleteProduct_delete(r) ==
  /\ reqs[r].pc = "dp_delete"
  /\ LET rec   == reqs[r]
         pid   == rec.id
         found == pid \in DOMAIN products /\ products[pid].retailer_id = rec.retailer
     IN  /\ products' = IF found THEN DeleteRow(products, pid) ELSE products
         /\ orders' = IF found
                      THEN [o \in {i \in DOMAIN orders : orders[i].product_id # pid}
                              |-> orders[o]]
                      ELSE orders
         /\ ledger' = IF found THEN Touch(pid) ELSE ledger
         /\ Respond(r, rec, 200, "Product deleted successfully", {})
  /\ UNCHANGED <<nextProductId, nextOrderId, started, users, retailers>>

\* ---------------------------------------------------------- getOrder
\* GET /orders/:id: select where id = :id and retailer_id = tenant
getOrder(r, t, oid) ==
  /\ FreeSlot(r)
  /\ started' = started + 1
  /\ LET rec   == New("getOrder", t, oid)
         found == oid \in DOMAIN orders /\ orders[oid].retailer_id = t
     IN  IF found
         THEN Respond(r, rec, 200, "", {orders[oid].retailer_id})
         ELSE Respond(r, rec, 404, "Order not found", {})
  /\ UNCHANGED <<products, orders, nextProductId, nextOrderId, ledger, users, retailers>>

\* ---------------------------------------------------------- updateOrderStatus
\* variant of the update with a transition rule: a cancellation is ignored
updateData_NoCancel(row, status) ==
  IF status = "cancelled" THEN row ELSE [row EXCEPT !.status = status]

\* variant of the update that also empties a cancelled order
updateData_Void(row, status) ==
  [row EXCEPT !.status = status,
              !.total_amount = IF status = "cancelled" THEN 0 ELSE @]

\* the row after update({status}): the status is replaced, nothing is compared
updateData(row, status) == [row EXCEPT !.status = status]

\* PUT /orders/:id: update status where id = :id and retailer_id = tenant
updateOrderStatus(r, t, oid, status) ==
  /\ FreeSlot(r)
  /\ started' = started + 1
  /\ LET rec   == New("updateOrderStatus", t, oid)
         found == oid \in DOMAIN orders /\ orders[oid].retailer_id = t
     IN  IF found
         THEN /\ orders' = [orders EXCEPT ![oid] = updateData(@, status)]
              /\ Respond(r, rec, 200, "Order updated successfully", {orders[oid].retailer_id})
         ELSE /\ Respond(r, rec, 404, "Order not found", {})
              /\ UNCHANGED orders
  /\ UNCHANGED <<products, nextProductId, nextOrderId, ledger, users, retailers>>

\* ---------------------------------------------------------- deleteOrder
\* variant of the status test that refuses shipped and delivered orders only
Deletable_UnlessShipped(status) == status \notin {"shipped", "delivered"}

\* statuses in which an order may be deleted
Deletable(status) == status \in {"pending", "cancelled"}

\* only a pending order has its stock restored
RestoresStock(status) == status = "pending"

\* variant of the restore that adds one unit whatever the quantity
StockAfterRestore_One(stock, quantity) == stock + 1

\* the stock written by the restore
StockAfterRestore(stock, quantity) == stock + quantity

\* select the order (id, retailer_id): 404 when no row, 409 when its status
\* is neither pending nor cancelled
deleteOrder_fetch(r, t, oid) ==
  /\ FreeSlot(r)
  /\ started' = started + 1
  /\ LET rec   == New("deleteOrder", t, oid)
         found == oid \in DOMAIN orders /\ orders[oid].retailer_id = t
     IN  IF ~found
         THEN Respond(r, rec, 404, "Order not found", {})
         ELSE IF ~Deletable(orders[oid].status)
              THEN Respond(r, rec, 409, "Only pending or cancelled orders can be deleted", {})
              ELSE Continue(r, [rec EXCEPT !.order = orders[oid],
                                           !.pc = IF RestoresStock(orders[oid].status)
                                                  THEN "do_product" ELSE "do_delete"])
  /\ UNCHANGED <<products, orders, nextProductId, nextOrderId, ledger, users, retailers>>

\* select stock from products where id = order.product_id; when no row is
\* found the restore is skipped
deleteOrder_product(r) ==
  /\ reqs[r].pc = "do_product"
  /\ LET rec == reqs[r]
         pid == rec.order.product_id
     IN  IF pid \in DOMAIN products
         THEN Continue(r, [rec EXCEPT !.pc = "do_restore",
                                      !.product = [NoProduct EXCEPT !.stock =
                                                     products[pid].stock]])
         ELSE Continue(r, [rec EXCEPT !.pc = "do_delete"])
  /\ UNCHANGED <<products, orders, nextProductId, nextOrderId, started, ledger, users, retailers>>

\* update products set stock = (stock read) + order.quantity where id = product_id
deleteOrder_restore(r) ==
  /\ reqs[r].pc = "do_restore"
  /\ LET rec == reqs[r]
         pid == rec.order.product_id
     IN  /\ products' = IF pid \in DOMAIN products
                        THEN [products EXCEPT ![pid].stock =
                                StockAfterRestore(rec.product.stock, rec.order.quantity)]
                        ELSE products
         /\ ledger' = Touch(pid)
         /\ Continue(r, [rec EXCEPT !.pc = "do_delete"])
  /\ UNCHANGED <<orders, nextProductId, nextOrderId, started, users, retailers>>

\* delete from orders where id = :id and retailer_id = tenant, then 200
deleteOrder_delete(r) ==
  /\ reqs[r].pc = "do_delete"
  /\ LET rec   == reqs[r]
         oid   == rec.id
         found == oid \in DOMAIN orders /\ orders[oid].retailer_id = rec.retailer
     IN  /\ orders' = IF found THEN DeleteRow(orders, oid) ELSE orders
         /\ Respond(r, rec, 200, "Order deleted successfully", {})
  /\ UNCHANGED <<products, nextProductId, nextOrderId, started, ledger, users, retailers>>

\* ---------------------------------------------------------- specification
Init ==
  /\ products = <<>>
  /\ orders = <<>>
  /\ nextProductId = 1
  /\ nextOrderId = 1
  /\ reqs = [s \in Slots |-> Idle]
  /\ reply = NoReply
  /\ started = 0
  /\ ledger = <<>>
  /\ users = Registered
  /\ retailers = RegisteredRetailers

Next ==
  \/ \E r \in Slots, t \in Tenants, p \in Prices, s \in Stocks : createProduct(r, t, p, s)
  \/ \E r \in Slots, t \in Tenants, pid \in ProdIds : getProduct(r, t, pid)
  \/ \E r \in Slots, t \in Tenants, pid \in ProdIds, q \in Qtys : createOrder_fetch(r, t, pid, q)
  \/ \E r \in Slots : createOrder_insert(r)
  \/ \E r \in Slots : createOrder_stock(r)
  \/ \E r \in Slots, t \in Tenants, pid \in ProdIds, b \in Bodies : updateProduct(r, t, pid, b)
  \/ \E r \in Slots, t \in Tenants, pid \in ProdIds : toggleProductStatus_fetch(r, t, pid)
  \/ \E r \in Slots : toggleProductStatus_update(r)
  \/ \E r \in Slots, t \in Tenants, pid \in ProdIds : deleteProduct_check(r, t, pid)
  \/ \E r \in Slots : deleteProduct_delete(r)
  \/ \E r \in Slots, t \in Tenants, oid \in OrderIds : getOrder(r, t, oid)
  \/ \E r \in Slots, t \in Tenants, oid \in OrderIds, s \in OrderStatuses : updateOrderStatus(r, t, oid, s)
  \/ \E r \in Slots, t \in Tenants, oid \in OrderIds : deleteOrder_fetch(r, t, oid)
  \/ \E r \in Slots : deleteOrder_product(r)
  \/ \E r \in Slots : deleteOrder_restore(r)
  \/ \E r \in Slots : deleteOrder_delete(r)

Spec == Init /\ [][Next]_vars

\* ---------------------------------------------------------- getDashboard
\* Time is counted in ticks; a UTC calendar day is TicksPerDay ticks long.
TicksPerDay == 2            \* ticks in a day
RevenueWindowDays == 30     \* Date.now() - 30 * 24 * 60 * 60 * 1000
WeeklyWindowDays  == 7      \* Date.now() - 7 * 24 * 60 * 60 * 1000
ChartDaysBack     == 6      \* for (let i = 6; i >= 0; i--)
LowStockMax       == 5      \* .lte('stock', 5)
LowStockLimit     == 10     \* .limit(10)

\* new Date(t).toISOString().split('T')[0], created_at.split('T')[0]: the UTC
\* calendar date of an instant, as a day number
DayOf(ts) == ts \div TicksPerDay

\* Date.now() - n * 24 * 60 * 60 * 1000
DaysAgo(now, n) == now - n * TicksPerDay

\* the ids of S in ascending order
RECURSIVE SortedIds(_)
SortedIds(S) ==
  IF S = {} THEN <<>>
  ELSE LET m == CHOOSE x \in S : \A y \in S : x <= y
       IN  <<m>> \o SortedIds(S \ {m})

\* the ids of S in ascending order of key[id] (ties in id order)
RECURSIVE SortedBy(_, _)
SortedBy(S, key) ==
  IF S = {} THEN <<>>
  ELSE LET m == CHOOSE x \in S : \A y \in S :
                  key[x] < key[y] \/ (key[x] = key[y] /\ x <= y)
       IN  <<m>> \o SortedBy(S \ {m}, key)

\* .limit(n)
Limit(rows, n) == IF Len(rows) <= n THEN rows ELSE SubSeq(rows, 1, n)

\* the four queries of Promise.all
Fetches == {"productStats", "recentOrders", "lowStockProducts", "weeklyOrders"}

\* select is_active, stock from products where retailer_id = t
productStatsQuery(t) ==
  LET ids == SortedIds({p \in DOMAIN products : products[p].retailer_id = t})
  IN  [i \in 1..Len(ids) |-> [is_active |-> products[ids[i]].is_active,
                              stock |-> products[ids[i]].stock]]

\* select status, total_amount, created_at from orders
\* where retailer_id = t and created_at >= now - 30 days
recentOrdersQuery(t, now) ==
  LET ids == SortedIds({o \in DOMAIN orders :
                          /\ orders[o].retailer_id = t
                          /\ orders[o].created_at >= DaysAgo(now, RevenueWindowDays)})
  IN  [i \in 1..Len(ids) |-> [status |-> orders[ids[i]].status,
                              total_amount |-> orders[ids[i]].total_amount,
                              created_at |-> orders[ids[i]].created_at]]

\* variant of the low stock query without the limit
lowStockQuery_NoLimit(t) ==
  LET S   == {p \in DOMAIN products : /\ products[p].retailer_id = t
                                      /\ products[p].is_active
                                      /\ products[p].stock <= LowStockMax}
      ids == SortedBy(S, [p \in S |-> products[p].stock])
  IN  [i \in 1..Len(ids) |-> [id |-> ids[i], stock |-> products[ids[i]].stock]]

\* select id, name, stock from products where retailer_id = t and is_active
\* and stock <= 5 order by stock limit 10
lowStockQuery(t) ==
  LET S   == {p \in DOMAIN products : /\ products[p].retailer_id = t
                                      /\ products[p].is_active
                                      /\ products[p].stock <= LowStockMax}
      ids == Limit(SortedBy(S, [p \in S |-> products[p].stock]), LowStockLimit)
  IN  [i \in 1..Len(ids) |-> [id |-> ids[i], stock |-> products[ids[i]].stock]]

\* select created_at from orders where retailer_id = t
\* and created_at >= now - 7 days order by created_at
weeklyOrdersQuery(t, now) ==
  LET S   == {o \in DOMAIN orders : /\ orders[o].retailer_id = t
                                    /\ orders[o].created_at >= DaysAgo(now, WeeklyWindowDays)}
      ids == SortedBy(S, [o \in S |-> orders[o].created_at])
  IN  [i \in 1..Len(ids) |-> [created_at |-> orders[ids[i]].created_at]]

Query(q, t, now) ==
  CASE q = "productStats"     -> productStatsQuery(t)
    [] q = "recentOrders"     -> recentOrdersQuery(t, now)
    [] q = "lowStockProducts" -> lowStockQuery(t)
    [] q = "weeklyOrders"     -> weeklyOrdersQuery(t, now)

\* productStats of the response
productStats(rows) ==
  LET total  == Len(rows)
      active == Cardinality({i \in 1..Len(rows) : rows[i].is_active})
  IN  [total |-> total, active |-> active, inactive |-> total - active,
       outOfStock |-> Cardinality({i \in 1..Len(rows) : rows[i].stock = 0})]

\* variant of the revenue that sums the orders of every status
RECURSIVE totalRevenue_AnyStatus(_)
totalRevenue_AnyStatus(rows) ==
  IF rows = <<>> THEN 0
  ELSE Head(rows).total_amount + totalRevenue_AnyStatus(Tail(rows))

\* recentOrders.filter(o => o.status === 'delivered').reduce(sum + total_amount, 0)
RECURSIVE totalRevenue(_)
totalRevenue(rows) ==
  IF rows = <<>> THEN 0
  ELSE (IF Head(rows).status = "delivered" THEN Head(rows).total_amount ELSE 0)
       + totalRevenue(Tail(rows))

\* amount.toFixed(2) of an amount held in hundredths: the digits before and
\* after the decimal point
toFixed2(amount) == [units |-> amount \div 100, decimals |-> amount % 100]

\* orderStats of the response
orderStats(rows) ==
  [totalLast30Days   |-> Len(rows),
   pending           |-> Cardinality({i \in 1..Len(rows) : rows[i].status = "pending"}),
   delivered         |-> Cardinality({i \in 1..Len(rows) : rows[i].status = "delivered"}),
   revenueLast30Days |-> toFixed2(totalRevenue(rows))]

\* variant of the chart dates that starts the week one day early
chartDates_DayEarly(now) ==
  [k \in 1..(ChartDaysBack + 1) |-> DayOf(DaysAgo(now, ChartDaysBack + 2 - k))]

\* the keys of dailyOrders in insertion order: the dates of now - i days for
\* i = 6 down to 0
chartDates(now) ==
  [k \in 1..(ChartDaysBack + 1) |-> DayOf(DaysAgo(now, ChartDaysBack + 1 - k))]

\* weeklyOrderChart: every key starts at 0 and is incremented once per row
\* whose created_at has that date
chartData(rows, now) ==
  LET dates == chartDates(now)
  IN  [k \in 1..Len(dates) |->
         [date   |-> dates[k],
          orders |-> Cardinality({j \in 1..Len(rows) :
                                    DayOf(rows[j].created_at) = dates[k]})]]

\* a query of Promise.all: not yet answered, or answered {data, error}
PendingFetch == [done |-> FALSE, error |-> <<>>, data |-> <<>>]

FetchOrder == <<"productStats", "recentOrders", "lowStockProducts", "weeklyOrders">>

\* variant of the error checks that forgets the last query
thrown_NotWeekly(results) ==
  LET bad == {i \in 1..3 : results[FetchOrder[i]].error # <<>>}
  IN  IF bad = {} THEN <<>>
      ELSE results[FetchOrder[CHOOSE i \in bad : \A j \in bad : i <= j]].error

\* if (productError) throw ...; if (orderError) ...; if (lowStockError) ...;
\* if (weeklyError) ...: the first error in this order, <<>> when there is none
thrown(results) ==
  LET bad == {i \in 1..Len(FetchOrder) : results[FetchOrder[i]].error # <<>>}
  IN  IF bad = {} THEN <<>>
      ELSE results[FetchOrder[CHOOSE i \in bad : \A j \in bad : i <= j]].error

MaxDashRequests == 1        \* dashboard requests ever received
MaxLater        == 1        \* ticks between the request and the aggregation

\* GET /retailer/dashboard: the four queries are sent together
getDashboard(r, t, now) ==
  /\ FreeSlot(r)
  /\ started < MaxDashRequests
  /\ started' = started + 1
  /\ Continue(r, [now |-> now, results |-> [q \in Fetches |-> PendingFetch]]
                  @@ [New("getDashboard", t, 0) EXCEPT !.pc = "db_wait"])
  /\ UNCHANGED <<products, orders, nextProductId, nextOrderId, ledger, users, retailers>>

\* one of the queries is answered with its rows
getDashboard_fetch(r, q) ==
  /\ reqs[r].pc = "db_wait"
  /\ ~reqs[r].results[q].done
  /\ Continue(r, [reqs[r] EXCEPT !.results[q] =
                    [done |-> TRUE, error |-> <<>>,
                     data |-> Query(q, reqs[r].retailer, reqs[r].now)]])
  /\ UNCHANGED <<products, orders, nextProductId, nextOrderId, started, ledger, users, retailers>>

\* one of the queries is answered {data: null, error}
getDashboard_fetchError(r, q, code) ==
  /\ reqs[r].pc = "db_wait"
  /\ ~reqs[r].results[q].done
  /\ Continue(r, [reqs[r] EXCEPT !.results[q] =
                    [done |-> TRUE, error |-> <<code>>, data |-> <<>>]])
  /\ UNCHANGED <<products, orders, nextProductId, nextOrderId, started, ledger, users, retailers>>

\* Promise.all has resolved: the first error is thrown to the error handler,
\* otherwise the statistics are computed, later ticks after the request, and
\* answered; requested and computed record the two times with the response
getDashboard_respond(r, later) ==
  /\ reqs[r].pc = "db_wait"
  /\ \A q \in Fetches : reqs[r].results[q].done
  /\ LET rec == reqs[r]
         res == rec.results
         err == thrown(res)
     IN  IF err # <<>>
         THEN Respond(r, rec, errorHandler(err[1], "", 0),
                      errorMessage(err[1], "", 0, "store"), {})
         ELSE Respond(r, rec, 200, "",
                      [store            |-> rec.retailer,
                       productStats     |-> productStats(res["productStats"].data),
                       orderStats       |-> orderStats(res["recentOrders"].data),
                       lowStockProducts |-> res["lowStockProducts"].data,
                       weeklyOrderChart |-> chartData(res["weeklyOrders"].data,
                                                      rec.now + later),
                       requested        |-> rec.now,
                       computed         |-> rec.now + later])
  /\ UNCHANGED <<products, orders, nextProductId, nextOrderId, started, ledger, users, retailers>>

\* ---------------------------------------------------------- dashboard runs
\* A dashboard request against a store that other requests have filled
\* before: either two products and up to MaxDashOrders orders, or a catalogue
\* of up to MaxDashProducts products and no order.
MaxDashOrders   == 2
MaxDashProducts == 12

\* the times at which the request may arrive: the first and the last tick of a day
DashNow  == (RevenueWindowDays + 1) * TicksPerDay
DashNows == {DashNow, DashNow + 1}

\* creation times on both sides of the 30 day window, of the 7 day window and
\* of the first day of the chart, today, and later than the request
DashTimes ==
  {DashNow + 1, DashNow, DaysAgo(DashNow, ChartDaysBack),
   DaysAgo(DashNow, WeeklyWindowDays) + 1, DaysAgo(DashNow, WeeklyWindowDays),
   DaysAgo(DashNow, RevenueWindowDays) + 1, DaysAgo(DashNow, RevenueWindowDays),
   DaysAgo(DashNow, RevenueWindowDays) - 1}

DashAmounts  == {50, 175}
DashStatuses == {"pending", "delivered"}

\* one product of each tenant, for the orders to reference
DashShop ==
  <<[retailer_id |-> "A", price |-> 50, stock |-> 1, is_active |-> TRUE],
    [retailer_id |-> "B", price |-> 50, stock |-> 1, is_active |-> TRUE]>>

DashOrderRows ==
  {[retailer_id |-> t, product_id |-> IF t = "A" THEN 1 ELSE 2, quantity |-> 1,
    unit_price |-> a, total_amount |-> a, status |-> st, created_at |-> c] :
     t \in Tenants, a \in DashAmounts, st \in DashStatuses, c \in DashTimes}

\* order tables: ids are given in the order of creation
DashOrders ==
  {os \in UNION {[1..n -> DashOrderRows] : n \in 0..MaxDashOrders} :
     \A i, j \in DOMAIN os : i <= j => os[i].created_at <= os[j].created_at}

\* catalogues of n products: every m-th belongs to the other tenant, every
\* k-th is inactive, the stocks are b, b + a, b + 2a, ... within 0..LowStockMax + 1
DashCatalogue(n, a, b, m, k) ==
  [i \in 1..n |-> [retailer_id |-> IF i % m = 0 THEN "B" ELSE "A",
                   price       |-> 50,
                   stock       |-> (b + a * i) % (LowStockMax + 2),
                   is_active   |-> i % k # 0]]

DashCatalogues ==
  {DashCatalogue(n, a, b, m, k) :
     n \in 0..MaxDashProducts, a \in {0, 1}, b \in 0..(LowStockMax + 1),
     m \in {2, MaxDashProducts + 2}, k \in {3, MaxDashProducts + 2}}

DashInit ==
  /\ \/ products = DashShop /\ orders \in DashOrders
     \/ products \in DashCatalogues /\ orders = <<>>
  /\ nextProductId = Len(products) + 1
  /\ nextOrderId = Len(orders) + 1
  /\ reqs = [s \in Slots |-> Idle]
  /\ reply = NoReply
  /\ started = 0
  /\ ledger = <<>>
  /\ users = Registered
  /\ retailers = RegisteredRetailers

DashNext ==
  \/ \E r \in Slots, t \in Tenants, now \in DashNows : getDashboard(r, t, now)
  \/ \E r \in Slots, q \in Fetches : getDashboard_fetch(r, q)
  \/ \E r \in Slots, later \in 0..MaxLater : getDashboard_respond(r, later)

SpecDash == DashInit /\ [][DashNext]_vars

\* ---------------------------------------------------------- store failures
\* The code of an error object returned by the store: an SQLSTATE, a code of
\* the REST layer, or "" for an error that carries none (the request did not
\* reach the store).  57014 stands for every code the error handler does not name.
StoreCodes == {"", "23505", "23503", "23502", "57014", "PGRST116"}

\* the handlers and what their first store call answers to
FirstAwaitOps ==
  {"createProduct", "getProducts", "getProduct", "updateProduct", "deleteProduct",
   "toggleProductStatus", "getCategories", "createOrder", "getOrders", "getOrder",
   "updateOrderStatus", "deleteOrder", "getOrderStats"}

\* if (error.code === 'PGRST116') return res.status(404)
NotFoundOn116 ==
  {"getProduct", "updateProduct", "toggleProductStatus", "getOrder",
   "updateOrderStatus", "deleteOrder"}

\* the errors of the first store call that the handler answers itself with
\* 404: createOrder every error (productError || !product), the handlers of
\* NotFoundOn116 the code PGRST116; every other error is thrown
answeredNotFound(op, code) ==
  \/ op = "createOrder"
  \/ op \in NotFoundOn116 /\ code = "PGRST116"

\* the first store call of handler op, for tenant t, is answered with an error
storeError(r, t, op, code) ==
  /\ FreeSlot(r)
  /\ started' = started + 1
  /\ IF answeredNotFound(op, code)
     THEN Respond(r, New(op, t, 0), 404, "not found", {})
     ELSE Respond(r, New(op, t, 0), errorHandler(code, "", 0),
                  errorMessage(code, "", 0, "store"), {})
  /\ UNCHANGED <<products, orders, nextProductId, nextOrderId, ledger, users, retailers>>

\* createOrder step 4: the insert is answered with an error, which is thrown
createOrder_insertError(r, code) ==
  /\ reqs[r].pc = "co_insert"
  /\ Respond(r, reqs[r], errorHandler(code, "", 0),
             errorMessage(code, "", 0, "store"), {})
  /\ UNCHANGED <<products, orders, nextProductId, nextOrderId, started, ledger, users, retailers>>

\* variant of step 5 that throws the stock error to the error handler
stockErrorStatus_Throw(code) == errorHandler(code, "", 0)

\* step 5 on an error: the error is logged and the handler goes on to
\* res.status(201)
stockErrorStatus(code) == 201

\* createOrder step 5: the stock update is answered with an error; no row is
\* written, the order inserted in step 4 stays and is the data of the answer
createOrder_stockError(r, code) ==
  /\ reqs[r].pc = "co_stock"
  /\ ledger' = IF reqs[r].id \in DOMAIN ledger
               THEN [ledger EXCEPT ![reqs[r].id].sold = @ + reqs[r].quantity]
               ELSE ledger
  /\ Respond(r, reqs[r], stockErrorStatus(code), "Order created successfully",
             {reqs[r].retailer})
  /\ UNCHANGED <<products, orders, nextProductId, nextOrderId, started, users, retailers>>

\* the store after a first request, createProduct of tenant A, was answered
FaultInit ==
  /\ products = (1 :> [retailer_id |-> "A", price |-> 1, stock |-> MaxStock, is_active |-> TRUE])
  /\ orders = <<>>
  /\ nextProductId = 2
  /\ nextOrderId = 1
  /\ reqs = [s \in Slots |-> Idle]
  /\ reply = [op |-> "createProduct", resp |-> 201,
              message |-> "Product created successfully", data |-> {"A"}]
  /\ started = 1
  /\ ledger = (1 :> [stock0 |-> MaxStock, sold |-> 0])
  /\ users = Registered
  /\ retailers = RegisteredRetailers

FaultNext ==
  \/ \E r \in Slots, t \in Tenants, p \in Prices, s \in Stocks : createProduct(r, t, p, s)
  \/ \E r \in Slots, t \in Tenants, pid \in ProdIds, q \in Qtys : createOrder_fetch(r, t, pid, q)
  \/ \E r \in Slots : createOrder_insert(r)
  \/ \E r \in Slots : createOrder_stock(r)
  \/ \E r \in Slots, t \in Tenants, op \in FirstAwaitOps, c \in StoreCodes :
        storeError(r, t, op, c)
  \/ \E r \in Slots, c \in StoreCodes : createOrder_insertError(r, c)
  \/ \E r \in Slots, c \in StoreCodes : createOrder_stockError(r, c)

SpecFault == FaultInit /\ [][FaultNext]_vars

\* ---------------------------------------------------------- dashboard failures
\* the codes of the errors a dashboard query is answered with
FetchCodes == {"", "57014"}

\* a store with two delivered orders of tenant A created today
DashFaultInit ==
  /\ products = DashShop
  /\ orders = [i \in 1..MaxDashOrders |->
                [retailer_id |-> "A", product_id |-> 1, quantity |-> 1, unit_price |-> 175,
                 total_amount |-> 175, status |-> "delivered", created_at |-> DashNow]]
  /\ nextProductId = Len(products) + 1
  /\ nextOrderId = Len(orders) + 1
  /\ reqs = [s \in Slots |-> Idle]
  /\ reply = NoReply
  /\ started = 0
  /\ ledger = <<>>
  /\ users = Registered
  /\ retailers = RegisteredRetailers

DashFaultNext ==
  \/ \E r \in Slots, t \in Tenants, now \in DashNows : getDashboard(r, t, now)
  \/ \E r \in Slots, q \in Fetches : getDashboard_fetch(r, q)
  \/ \E r \in Slots, q \in Fetches, c \in FetchCodes : getDashboard_fetchError(r, q, c)
  \/ \E r \in Slots, later \in 0..MaxLater : getDashboard_respond(r, later)

SpecDashFault == DashFaultInit /\ [][DashFaultNext]_vars

\* ---------------------------------------------------------- authenticateToken
\* the handlers of each route, in the order the router runs them
Chain ==
  [ post_orders            |-> <<"authenticateToken", "validateOrder", "createOrder">>,
    get_orders             |-> <<"authenticateToken", "getOrders">>,
    get_orders_stats       |-> <<"authenticateToken", "getOrderStats">>,
    get_orders_id          |-> <<"authenticateToken", "validateUUIDParam", "getOrder">>,
    put_orders_id          |-> <<"authenticateToken", "validateOrderStatus", "updateOrderStatus">>,
    delete_orders_id       |-> <<"authenticateToken", "validateUUIDParam", "deleteOrder">>,
    post_products          |-> <<"authenticateToken", "validateProduct", "createProduct">>,
    get_products           |-> <<"authenticateToken", "getProducts">>,
    get_products_categories |-> <<"authenticateToken", "getCategories">>,
    get_products_id        |-> <<"authenticateToken", "validateUUIDParam", "getProduct">>,
    put_products_id        |-> <<"authenticateToken", "validateProductUpdate", "updateProduct">>,
    patch_products_id_toggle_status |-> <<"authenticateToken", "validateUUIDParam", "toggleProductStatus">>,
    delete_products_id     |-> <<"authenticateToken", "validateUUIDParam", "deleteProduct">>,
    post_uploads_logo      |-> <<"authenticateToken", "upload.single", "uploadLogo">>,
    post_uploads_banner    |-> <<"authenticateToken", "upload.single", "uploadBanner">>,
    get_retailer_settings  |-> <<"authenticateToken", "getSettings">>,
    put_retailer_settings  |-> <<"authenticateToken", "validateRetailerSettings", "updateSettings">>,
    get_retailer_dashboard |-> <<"authenticateToken", "getDashboard">>,
    get_retailer_themes    |-> <<"authenticateToken", "getThemes">>,
    patch_retailer_theme   |-> <<"authenticateToken", "body", "updateTheme">>,
    get_auth_me            |-> <<"authenticateToken", "getProfile">>,
    get_retailer_store_retailerId |-> <<"validateUUIDParam", "getPublicStore">> ]

Routes == DOMAIN Chain

\* the routes that answer with the data of the calling tenant
TenantRoutes == Routes \ {"get_retailer_store_retailerId"}

\* the Authorization header split at the blanks; <<>> when the header is absent
AuthHeaders ==
  {<<>>, <<"Bearer">>, <<"Bearer", "expired">>, <<"Bearer", "tokN">>,
   <<"Bearer", "tokA">>, <<"Bearer", "tokB">>}

\* authHeader && authHeader.split(' ')[1]; "" stands for undefined
token(authHeader) ==
  IF authHeader # <<>> /\ Len(authHeader) >= 2 THEN authHeader[2] ELSE ""

\* the sessions the identity provider knows: token -> user id
Sessions == ("tokA" :> "uA") @@ ("tokB" :> "uB") @@ ("tokN" :> "uN")

\* supabase.auth.getUser(token)
getUser(tok) ==
  IF tok \in DOMAIN Sessions THEN [user |-> Sessions[tok], error |-> FALSE]
                             ELSE [user |-> "", error |-> TRUE]

\* the retailers table: user_id -> retailer id; user uN has not registered
Retailers == ("uA" :> "A") @@ ("uB" :> "B")

\* from('retailers').select('*').eq('user_id', user.id).single()
retailerOf(user) ==
  IF user \in DOMAIN Retailers THEN [retailer |-> Retailers[user], error |-> FALSE]
                               ELSE [retailer |-> "", error |-> TRUE]

\* variant that lets a user without a retailer profile through
NoProfile_Never(retailer, retailerError) == FALSE

\* if (retailerError || !retailer)
NoProfile(retailer, retailerError) == retailerError \/ retailer = ""

MaxAuthRequests == 1

\* the request as the handler at position pos of its route's chain sees it
Incoming(route, authHeader, pos, pc) ==
  [route |-> route, authorization |-> authHeader, user |-> "", pos |-> pos]
    @@ [New(Chain[route][Len(Chain[route])], "", 0) EXCEPT !.pc = pc]

\* next(): the following handler of the chain is a middleware or the controller
Next_pc(route, pos) == IF pos + 1 = Len(Chain[route]) THEN "controller" ELSE "middleware"

\* authenticateToken up to its first await: 401 without a token
authenticateToken(r, route, authHeader) ==
  /\ FreeSlot(r)
  /\ started < MaxAuthRequests
  /\ Chain[route][1] = "authenticateToken"
  /\ started' = started + 1
  /\ IF token(authHeader) = ""
     THEN Respond(r, Incoming(route, authHeader, 1, "auth"), 401,
                  "Access token is required. Please include Authorization header.", {})
     ELSE Continue(r, Incoming(route, authHeader, 1, "auth_getUser"))
  /\ UNCHANGED <<products, orders, nextProductId, nextOrderId, ledger, users, retailers>>

\* the identity provider answered: 401 when it rejects the token
authenticateToken_getUser(r) ==
  /\ reqs[r].pc = "auth_getUser"
  /\ LET res == getUser(token(reqs[r].authorization)) IN
       IF res.error \/ res.user = ""
       THEN Respond(r, reqs[r], 401, "Invalid or expired token. Please login again.", {})
       ELSE Continue(r, [reqs[r] EXCEPT !.pc = "auth_retailer", !.user = res.user])
  /\ UNCHANGED <<products, orders, nextProductId, nextOrderId, started, ledger, users, retailers>>

\* the retailers lookup answered: 404 without a profile, else req.retailer is
\* set and next() is called
authenticateToken_retailer(r) ==
  /\ reqs[r].pc = "auth_retailer"
  /\ LET res == retailerOf(reqs[r].user) IN
       IF NoProfile(res.retailer, res.error)
       THEN Respond(r, reqs[r], 404,
                    "Retailer profile not found. Please complete registration.", {})
       ELSE Continue(r, [reqs[r] EXCEPT !.pc = Next_pc(reqs[r].route, reqs[r].pos),
                                        !.pos = @ + 1, !.retailer = res.retailer])
  /\ UNCHANGED <<products, orders, nextProductId, nextOrderId, started, ledger, users, retailers>>

\* a route without authenticateToken: its first handler is a middleware
publicRoute(r, route) ==
  /\ FreeSlot(r)
  /\ started < MaxAuthRequests
  /\ Chain[route][1] # "authenticateToken"
  /\ started' = started + 1
  /\ Continue(r, Incoming(route, <<>>, 1, "middleware"))
  /\ UNCHANGED <<products, orders, nextProductId, nextOrderId, ledger, users, retailers>>

\* a validator or the upload parser between authenticateToken and the
\* controller: it answers 400 itself or calls next()
middleware(r, ok) ==
  /\ reqs[r].pc = "middleware"
  /\ IF ok
     THEN Continue(r, [reqs[r] EXCEPT !.pc = Next_pc(reqs[r].route, reqs[r].pos),
                                      !.pos = @ + 1])
     ELSE Respond(r, reqs[r], 400, "Validation failed", {})
  /\ UNCHANGED <<products, orders, nextProductId, nextOrderId, started, ledger, users, retailers>>

\* the controller of the route runs for req.retailer and answers
controller(r) ==
  /\ reqs[r].pc = "controller"
  /\ Respond(r, reqs[r], 200, "ok",
             IF reqs[r].retailer = "" THEN {} ELSE {reqs[r].retailer})
  /\ UNCHANGED <<products, orders, nextProductId, nextOrderId, started, ledger, users, retailers>>

AuthNext ==
  \/ \E r \in Slots, route \in Routes, h \in AuthHeaders : authenticateToken(r, route, h)
  \/ \E r \in Slots : authenticateToken_getUser(r)
  \/ \E r \in Slots : authenticateToken_retailer(r)
  \/ \E r \in Slots, route \in Routes : publicRoute(r, route)
  \/ \E r \in Slots, ok \in BOOLEAN : middleware(r, ok)
  \/ \E r \in Slots : controller(r)

SpecAuth == Init /\ [][AuthNext]_vars

\* ---------------------------------------------------------- register
Emails == {"a@shop", "b@shop"}
Names  == {"Shop", "Store"}

\* the ids given to a new identity and to a new retailers row
UserId     == ("a@shop" :> "uA") @@ ("b@shop" :> "uB")
RetailerId == ("uA" :> "A") @@ ("uB" :> "B")

\* the status of an authError, 0 when it carries none
AuthErrorStatuses == {0, 422}

\* authError.status || 400
authStatusCode(status) == IF status # 0 THEN status ELSE 400

\* step 1: supabase.auth.signUp: an error (always so for an email that has an
\* identity) is answered with its status, else the identity exists from here on
register(r, email, name, authError) ==
  /\ FreeSlot(r)
  /\ started' = started + 1
  /\ (\E u \in DOMAIN users : users[u] = email) => authError # <<>>
  /\ LET rec == [email |-> email, name |-> name, user |-> ""] @@ New("register", "", 0) IN
       IF authError # <<>>
       THEN /\ Respond(r, rec, authStatusCode(authError[1]), "Registration failed", {})
            /\ UNCHANGED users
       ELSE /\ users' = (UserId[email] :> email) @@ users
            /\ Continue(r, [rec EXCEPT !.pc = "rg_insert", !.user = UserId[email]])
  /\ UNCHANGED <<products, orders, nextProductId, nextOrderId, ledger, retailers>>

\* step 2: the retailers row is inserted with theme 'default'; 201
register_insert(r) ==
  /\ reqs[r].pc = "rg_insert"
  /\ retailers' = (RetailerId[reqs[r].user] :>
                     [user_id |-> reqs[r].user, email |-> reqs[r].email,
                      name |-> reqs[r].name, theme |-> "default"]) @@ retailers
  /\ Respond(r, reqs[r], 201,
             "Registration successful! Please check your email to verify your account.",
             {RetailerId[reqs[r].user]})
  /\ UNCHANGED <<products, orders, nextProductId, nextOrderId, started, ledger, users>>

\* step 2 on an error: the insert failed, the identity of step 1 is kept; 500
register_insertError(r, code) ==
  /\ reqs[r].pc = "rg_insert"
  /\ Respond(r, reqs[r], 500,
             "Registration completed but profile creation failed. Please contact support.", {})
  /\ UNCHANGED <<products, orders, nextProductId, nextOrderId, started, ledger,
                 users, retailers>>

\* ---------------------------------------------------------- updateTheme
Themes == {"default", "modern", "classic", "minimal", "bold"}

\* the values a body gives for theme; "" stands for an empty string
ThemeInputs == Themes \cup {"neon", ""}

\* variant of the test that takes every value
validTheme_Any(theme) == TRUE

\* validThemes.includes(theme)
validTheme(theme) == theme \in Themes

\* PATCH /retailer/theme as retailer ret; theme is <<>> when the body has none
updateTheme(r, ret, theme) ==
  /\ FreeSlot(r)
  /\ ret \in DOMAIN retailers
  /\ started' = started + 1
  /\ IF theme = <<>> \/ ~validTheme(theme[1])
     THEN /\ Respond(r, New("updateTheme", ret, 0), 400, "Invalid theme selection", {})
          /\ UNCHANGED retailers
     ELSE /\ retailers' = [retailers EXCEPT ![ret].theme = theme[1]]
          /\ Respond(r, New("updateTheme", ret, 0), 200, "Theme updated", {ret})
  /\ UNCHANGED <<products, orders, nextProductId, nextOrderId, ledger, users>>

\* ---------------------------------------------------------- updateSettings
\* of the keys of the model, name is among those the controller copies and
\* theme is not
SettingsBodies == [name : Opt(Names), theme : Opt(ThemeInputs)]

\* validateRetailerSettings: theme is optional and, when present, one of the five
validSettings(body) == body.theme = <<>> \/ body.theme[1] \in Themes

\* cleanedData of updateSettings: the listed keys that are not undefined
settingsData(row, body) ==
  [row EXCEPT !.name = IF body.name = <<>> THEN @ ELSE body.name[1]]

\* PUT /retailer/settings as retailer ret
updateSettings(r, ret, body) ==
  /\ FreeSlot(r)
  /\ ret \in DOMAIN retailers
  /\ started' = started + 1
  /\ LET rec == New("updateSettings", ret, 0) IN
       IF ~validSettings(body)
       THEN /\ Respond(r, rec, errorHandler("", "validation", 0),
                       errorMessage("", "validation", 0, ""), {})
            /\ UNCHANGED retailers
       ELSE IF body.name = <<>>
       THEN /\ Respond(r, rec, 400, "No valid fields to update", {})
            /\ UNCHANGED retailers
       ELSE /\ retailers' = [retailers EXCEPT ![ret] = settingsData(@, body)]
            /\ Respond(r, rec, 200, "Settings updated successfully", {ret})
  /\ UNCHANGED <<products, orders, nextProductId, nextOrderId, ledger, users>>

\* no identity and no retailer yet
AccountInit ==
  /\ products = <<>>
  /\ orders = <<>>
  /\ nextProductId = 1
  /\ nextOrderId = 1
  /\ reqs = [s \in Slots |-> Idle]
  /\ reply = NoReply
  /\ started = 0
  /\ ledger = <<>>
  /\ users = <<>>
  /\ retailers = <<>>

AccountNext ==
  \/ \E r \in Slots, e \in Emails, n \in Names, a \in Opt(AuthErrorStatuses) :
        register(r, e, n, a)
  \/ \E r \in Slots : register_insert(r)
  \/ \E r \in Slots, c \in StoreCodes : register_insertError(r, c)
  \/ \E r \in Slots, ret \in Tenants, th \in Opt(ThemeInputs) : updateTheme(r, ret, th)
  \/ \E r \in Slots, ret \in Tenants, b \in SettingsBodies : updateSettings(r, ret, b)

SpecAccount == AccountInit /\ [][AccountNext]_vars

\* ---------------------------------------------------------- getOrderStats
\* select status from orders where retailer_id = t: order id -> status
statusStatsQuery(t) ==
  [o \in {x \in DOMAIN orders : orders[x].retailer_id = t} |-> orders[o].status]

\* statusStats.filter(o => o.status === status).length
CountOf(statusStats, status) ==
  Cardinality({o \in DOMAIN statusStats : statusStats[o] = status})

\* stats: the number of rows and the number of rows of each of six statuses
stats(statusStats) ==
  [total      |-> Cardinality(DOMAIN statusStats),
   pending    |-> CountOf(statusStats, "pending"),
   confirmed  |-> CountOf(statusStats, "confirmed"),
   processing |-> CountOf(statusStats, "processing"),
   shipped    |-> CountOf(statusStats, "shipped"),
   delivered  |-> CountOf(statusStats, "delivered"),
   cancelled  |-> CountOf(statusStats, "cancelled")]

\* select total_amount from orders where retailer_id = t and status =
\* 'delivered': the ids of the rows
revenueQuery(t) ==
  {o \in DOMAIN orders : orders[o].retailer_id = t /\ orders[o].status = "delivered"}

\* revenueData.reduce((sum, order) => sum + parseFloat(order.total_amount), 0)
RECURSIVE revenueOf(_)
revenueOf(S) ==
  IF S = {} THEN 0
  ELSE LET o == CHOOSE x \in S : TRUE
       IN  orders[o].total_amount + revenueOf(S \ {o})

\* GET /orders/stats, first query: the statuses of the tenant's orders
getOrderStats(r, t) ==
  /\ FreeSlot(r)
  /\ started' = started + 1
  /\ Continue(r, [statusStats |-> statusStatsQuery(t)]
                  @@ [New("getOrderStats", t, 0) EXCEPT !.pc = "os_revenue"])
  /\ UNCHANGED <<products, orders, nextProductId, nextOrderId, ledger, users, retailers>>

\* second query: the amounts of the tenant's delivered orders; 200
getOrderStats_revenue(r) ==
  /\ reqs[r].pc = "os_revenue"
  /\ Respond(r, reqs[r], 200, "",
             [orderStats   |-> stats(reqs[r].statusStats),
              totalRevenue |-> toFixed2(revenueOf(revenueQuery(reqs[r].retailer)))])
  /\ UNCHANGED <<products, orders, nextProductId, nextOrderId, started, ledger,
                 users, retailers>>

MaxStatsOrders == 3

\* the first MaxStatsOrders of: orders of tenant A, pending and delivered in
\* turn, every third one an order of tenant B
StatsOrder(i) ==
  [retailer_id  |-> IF i % 3 = 0 THEN "B" ELSE "A",
   product_id   |-> IF i % 3 = 0 THEN 2 ELSE 1,
   quantity     |-> 1,
   unit_price   |-> IF i % 2 = 0 THEN 175 ELSE 50,
   total_amount |-> IF i % 2 = 0 THEN 175 ELSE 50,
   status       |-> IF i % 2 = 0 THEN "delivered" ELSE "pending"]

StatsInit ==
  /\ products = DashShop
  /\ orders = [i \in 1..MaxStatsOrders |-> StatsOrder(i)]
  /\ nextProductId = Len(products) + 1
  /\ nextOrderId = Len(orders) + 1
  /\ reqs = [s \in Slots |-> Idle]
  /\ reply = NoReply
  /\ started = 0
  /\ ledger = <<>>
  /\ users = Registered
  /\ retailers = RegisteredRetailers

StatsNext ==
  \/ \E r \in Slots, t \in Tenants : getOrderStats(r, t)
  \/ \E r \in Slots : getOrderStats_revenue(r)
  \/ \E r \in Slots, t \in Tenants, oid \in 1..MaxStatsOrders, st \in OrderStatuses :
        updateOrderStatus(r, t, oid, st)

SpecStats == StatsInit /\ [][StatsNext]_vars

\* ---------------------------------------------------------- query parameters
\* A value of the handler is a number or a string; a query parameter, when
\* given, is the string of its decimal digits.
Num(n) == [type |-> "number", n |-> n, s |-> <<>>]
Str(s) == [type |-> "string", n |-> 0, s |-> s]

\* the decimal digits of n >= 0
RECURSIVE Digits(_)
Digits(n) == IF n < 10 THEN <<n>> ELSE Digits(n \div 10) \o <<n % 10>>

\* the number a string of digits stands for
RECURSIVE ValueOf(_)
ValueOf(s) ==
  IF s = <<>> THEN 0 ELSE ValueOf(SubSeq(s, 1, Len(s) - 1)) * 10 + s[Len(s)]

jsNumber(v) == IF v.type = "number" THEN v.n ELSE ValueOf(v.s)
jsString(v) == IF v.type = "string" THEN v.s ELSE Digits(v.n)

\* a - b and a * b convert both operands to numbers
jsMinus(a, b) == Num(jsNumber(a) - jsNumber(b))
jsTimes(a, b) == Num(jsNumber(a) * jsNumber(b))

\* a + b adds two numbers and concatenates when either operand is a string
jsPlus(a, b) ==
  IF a.type = "string" \/ b.type = "string" THEN Str(jsString(a) \o jsString(b))
  ELSE Num(a.n + b.n)

DefaultPage  == 1
DefaultLimit == 10

\* const { page = 1, limit = 10 } = req.query; q is <<>> when not given
pageOf(q)  == IF q = <<>> THEN Num(DefaultPage) ELSE Str(q[1])
limitOf(q) == IF q = <<>> THEN Num(DefaultLimit) ELSE Str(q[1])

\* const offset = (page - 1) * limit
offsetOf(page, limit) == jsTimes(jsMinus(page, Num(1)), limit)

\* offset + limit - 1, the second argument of range
rangeEnd(page, limit) == jsMinus(jsPlus(offsetOf(page, limit), limit), Num(1))

\* .range(from, to): the rows at offsets from..to, counted from 0
Range(rows, from, to) ==
  SubSeq(rows, from + 1, IF to + 1 < Len(rows) THEN to + 1 ELSE Len(rows))

\* Math.ceil(total / limit)
Ceil(total, limit) == (total + limit - 1) \div limit

\* ---------------------------------------------------------- getOrders
\* customer names and search patterns are sequences of letters
Lower(c) == CASE c = "A" -> "a" [] c = "N" -> "n" [] c = "B" -> "b" [] OTHER -> c
LowerAll(w) == [i \in 1..Len(w) |-> Lower(w[i])]

\* customer_name ilike '%pattern%'
ILike(name, pattern) ==
  \E i \in 1..(Len(name) - Len(pattern) + 1) :
    SubSeq(LowerAll(name), i, i + Len(pattern) - 1) = LowerAll(pattern)

\* the tenant's orders that pass the filters a request gives; status is ""
\* and customer_name is <<>> when not given
OrdersFilter(t, status, customer_name) ==
  {o \in DOMAIN orders :
     /\ orders[o].retailer_id = t
     /\ status # "" => orders[o].status = status
     /\ customer_name # <<>> => ILike(orders[o].customer_name, customer_name)}

\* order('created_at', { ascending: false })
NewestFirst(S, table) == SortedBy(S, [x \in S |-> 0 - table[x].created_at])

MaxListRequests == 1

\* GET /orders, first query: the requested range of the filtered orders
getOrders(r, t, status, customer_name, page, limit) ==
  /\ FreeSlot(r)
  /\ started < MaxListRequests
  /\ started' = started + 1
  /\ LET rows == NewestFirst(OrdersFilter(t, status, customer_name), orders)
         from == jsNumber(offsetOf(pageOf(page), limitOf(limit)))
         to   == jsNumber(rangeEnd(pageOf(page), limitOf(limit)))
     IN  Continue(r, [status |-> status, customer_name |-> customer_name,
                      page |-> pageOf(page), limit |-> limitOf(limit),
                      from |-> from, to |-> to, data |-> Range(rows, from, to)]
                     @@ [New("getOrders", t, 0) EXCEPT !.pc = "go_count"])
  /\ UNCHANGED <<products, orders, nextProductId, nextOrderId, ledger, users, retailers>>

\* second query: the count of the filtered orders; 200
getOrders_count(r) ==
  /\ reqs[r].pc = "go_count"
  /\ LET rec        == reqs[r]
         totalCount == Cardinality(OrdersFilter(rec.retailer, rec.status, rec.customer_name))
     IN  Respond(r, rec, 200, "",
                 [data |-> rec.data,
                  pagination |-> [page       |-> jsNumber(rec.page),
                                  limit      |-> jsNumber(rec.limit),
                                  total      |-> totalCount,
                                  totalPages |-> Ceil(totalCount, jsNumber(rec.limit))]])
  /\ UNCHANGED <<products, orders, nextProductId, nextOrderId, started, ledger,
                 users, retailers>>

\* ---------------------------------------------------------- getProducts
\* the tenant's products that pass the filters a request gives; category is
\* "" and is_active is <<>> when not given, and is_active is compared with
\* the string 'true'
ProductsFilter(t, category, is_active) ==
  {q \in DOMAIN products :
     /\ products[q].retailer_id = t
     /\ category # "" => products[q].category = category
     /\ is_active # <<>> => products[q].is_active = (is_active[1] = "true")}

\* the filter of the count query: retailer_id only
ProductsCounted(t, category, is_active) ==
  {q \in DOMAIN products : products[q].retailer_id = t}

\* GET /products, first query: the requested range of the filtered products
getProducts(r, t, category, is_active, page, limit) ==
  /\ FreeSlot(r)
  /\ started < MaxListRequests
  /\ started' = started + 1
  /\ LET rows == NewestFirst(ProductsFilter(t, category, is_active), products)
         from == jsNumber(offsetOf(pageOf(page), limitOf(limit)))
         to   == jsNumber(rangeEnd(pageOf(page), limitOf(limit)))
     IN  Continue(r, [category |-> category, is_active |-> is_active,
                      page |-> pageOf(page), limit |-> limitOf(limit),
                      from |-> from, to |-> to, data |-> Range(rows, from, to)]
                     @@ [New("getProducts", t, 0) EXCEPT !.pc = "gp_count"])
  /\ UNCHANGED <<products, orders, nextProductId, nextOrderId, ledger, users, retailers>>

\* second query: the count; 200
getProducts_count(r) ==
  /\ reqs[r].pc = "gp_count"
  /\ LET rec        == reqs[r]
         totalCount == Cardinality(ProductsCounted(rec.retailer, rec.category, rec.is_active))
     IN  Respond(r, rec, 200, "",
                 [data |-> rec.data,
                  pagination |-> [page       |-> jsNumber(rec.page),
                                  limit      |-> jsNumber(rec.limit),
                                  total      |-> totalCount,
                                  totalPages |-> Ceil(totalCount, jsNumber(rec.limit))]])
  /\ UNCHANGED <<products, orders, nextProductId, nextOrderId, started, ledger,
                 users, retailers>>

\* ---------------------------------------------------------- list runs
MaxListOrders   == 4
MaxListProducts == 3
MaxPage  == 2
MaxLimit == 2

\* a query parameter page or limit: not given, or the digits of 1..max
QueryNumbers(max) == Opt({Digits(n) : n \in 1..max})

ListStatuses == {"", "pending", "delivered"}
ListNames    == {<<>>, <<"a", "N">>, <<"b">>}
Categories   == {"", "tea"}

\* the i-th order: every third one of tenant B, statuses and customers in turn
ListOrder(i) ==
  [retailer_id |-> IF i % 3 = 0 THEN "B" ELSE "A", product_id |-> 1, quantity |-> 1,
   unit_price |-> 50, total_amount |-> 50,
   status |-> IF i % 2 = 0 THEN "delivered" ELSE "pending",
   customer_name |-> IF i % 4 = 1 THEN <<"B", "o", "b">> ELSE <<"A", "n", "n">>,
   created_at |-> i]

\* the i-th product: every third one of tenant B, categories and flags in turn
ListProduct(i) ==
  [retailer_id |-> IF i % 3 = 0 THEN "B" ELSE "A", price |-> 50, stock |-> 1,
   is_active |-> i % 2 = 1,
   category |-> IF i % 2 = 0 THEN "tea" ELSE "pots",
   created_at |-> i]

ListInit ==
  /\ \E n \in 1..MaxListProducts : products = [i \in 1..n |-> ListProduct(i)]
  /\ \E n \in 0..MaxListOrders : orders = [i \in 1..n |-> ListOrder(i)]
  /\ nextProductId = Len(products) + 1
  /\ nextOrderId = Len(orders) + 1
  /\ reqs = [s \in Slots |-> Idle]
  /\ reply = NoReply
  /\ started = 0
  /\ ledger = <<>>
  /\ users = Registered
  /\ retailers = RegisteredRetailers

ListNext ==
  \/ \E r \in Slots, t \in Tenants, st \in ListStatuses, c \in ListNames,
        p \in QueryNumbers(MaxPage), l \in QueryNumbers(MaxLimit) :
        getOrders(r, t, st, c, p, l)
  \/ \E r \in Slots : getOrders_count(r)
  \/ \E r \in Slots, t \in Tenants, c \in Categories, a \in Opt({"true", "false"}),
        p \in QueryNumbers(MaxPage), l \in QueryNumbers(MaxLimit) :
        getProducts(r, t, c, a, p, l)
  \/ \E r \in Slots : getProducts_count(r)

SpecList == ListInit /\ [][ListNext]_vars

\* ---------------------------------------------------------- deleteOrder runs
MaxRestoreOrders == 2

\* the stock of the product before any order is deleted
RestoreStock0 == 1

\* the i-th order, pending, of quantity 1, 2, ... within 1..MaxQty
RestoreOrder(i) ==
  [retailer_id |-> "A", product_id |-> 1, quantity |-> ((i - 1) % MaxQty) + 1,
   unit_price |-> 1, total_amount |-> ((i - 1) % MaxQty) + 1, status |-> "pending"]

\* one product of tenant A and its pending orders
RestoreInit ==
  /\ products = <<[retailer_id |-> "A", price |-> 1, stock |-> RestoreStock0,
                   is_active |-> TRUE]>>
  /\ orders = [i \in 1..MaxRestoreOrders |-> RestoreOrder(i)]
  /\ nextProductId = Len(products) + 1
  /\ nextOrderId = Len(orders) + 1
  /\ reqs = [s \in Slots |-> Idle]
  /\ reply = NoReply
  /\ started = 0
  /\ ledger = <<>>
  /\ users = Registered
  /\ retailers = RegisteredRetailers

RestoreNext ==
  \/ \E r \in Slots, t \in Tenants, oid \in 1..MaxRestoreOrders : deleteOrder_fetch(r, t, oid)
  \/ \E r \in Slots : deleteOrder_product(r)
  \/ \E r \in Slots : deleteOrder_restore(r)
  \/ \E r \in Slots : deleteOrder_delete(r)

SpecRestore == RestoreInit /\ [][RestoreNext]_vars

\* ---------------------------------------------------------- properties
Quiescent == \A r \in Slots : ~InFlight(r)

OwnProduct(t, pid) == pid \in DOMAIN products /\ products[pid].retailer_id = t
OwnOrder(t, oid)   == oid \in DOMAIN orders /\ orders[oid].retailer_id = t

\* --------------------------------------------------------------------
\* what C1 requires of a single step
C1_Step ==
  /\ \A r \in Slots : createOrder_insert(r) =>
       \A o \in DOMAIN orders' \ DOMAIN orders :
         /\ orders'[o].status = "pending"
         /\ orders'[o].unit_price = reqs[r].product.price
         /\ orders'[o].quantity = reqs[r].quantity
         /\ orders'[o].total_amount = orders'[o].unit_price * orders'[o].quantity
  /\ \A o \in DOMAIN orders \cap DOMAIN orders' :
       /\ orders'[o].unit_price = orders[o].unit_price
       /\ orders'[o].quantity = orders[o].quantity
       /\ orders'[o].total_amount = orders[o].total_amount
       /\ orders[o].total_amount = orders[o].unit_price * orders[o].quantity

\* C1: every order is inserted with status pending, unit_price equal to the
\* price createOrder read from the product and total_amount = unit_price *
\* quantity; no later step (product price updates, status updates, anything
\* else) changes the unit_price, quantity or total_amount of a stored order.
C1_SnapshotPricing == [][C1_Step]_vars

\* an order of quantity 2 whose product has since changed its price and whose
\* status has since been updated
C1_Witness ==
  \E o \in DOMAIN orders :
    /\ orders[o].product_id \in DOMAIN products
    /\ products[orders[o].product_id].price # orders[o].unit_price
    /\ orders[o].status # "pending"
    /\ orders[o].quantity = 2
    /\ orders[o].total_amount = 2 * orders[o].unit_price

\* --------------------------------------------------------------------
\* what C2 requires of a single step
C2_Step ==
  \A r \in Slots, t \in Tenants, pid \in ProdIds, q \in Qtys :
    ( /\ createOrder_fetch(r, t, pid, q)
      /\ OwnProduct(t, pid)
      /\ products[pid].is_active
      /\ q > products[pid].stock )
    => /\ reply'.op = "createOrder"
       /\ reply'.resp = 400
       /\ reply'.message = "Insufficient stock"
       /\ ~InFlight(r)'
       /\ orders' = orders
       /\ products' = products
       /\ nextOrderId' = nextOrderId

\* C2: a createOrder request whose quantity exceeds the stock read for its
\* (own, active) product is answered 400 Insufficient stock in that step, ends
\* there, and the step inserts no order and changes no product.
C2_InsufficientStock == [][C2_Step]_vars

\* a createOrder was refused for stock while the product still has stock
C2_Witness ==
  /\ reply.op = "createOrder"
  /\ reply.resp = 400
  /\ reply.message = "Insufficient stock"
  /\ \E p \in DOMAIN products : products[p].stock = 1 /\ products[p].is_active

\* --------------------------------------------------------------------
\* C3 (as claimed): once all requests have finished, a product written by
\* createOrder only has stock = initial stock - total quantity of the orders
\* created successfully.
C3_StockAccounting ==
  Quiescent =>
    \A p \in DOMAIN ledger \cap DOMAIN products :
      products[p].stock = ledger[p].stock0 - ledger[p].sold

\* --------------------------------------------------------------------
\* C4 (as claimed): the total quantity of the orders created successfully
\* against a product written by createOrder only never exceeds its initial stock.
C4_NoOversell ==
  \A p \in DOMAIN ledger : ledger[p].sold <= ledger[p].stock0

\* --------------------------------------------------------------------
\* C5: in every reachable state every product's stock is a non-negative integer.
C5_StockNonNegative ==
  \A p \in DOMAIN products : products[p].stock \in Nat

\* two createOrder requests raced on one product: more was sold than the
\* product had, and its stock is 0
C5_Witness ==
  \E p \in DOMAIN ledger \cap DOMAIN products :
    /\ ledger[p].sold > ledger[p].stock0
    /\ products[p].stock = 0

\* --------------------------------------------------------------------
\* what C6 requires of a single step
C6_Step ==
  \A r \in Slots :
    /\ (deleteOrder_restore(r) /\ reqs[r].solo) =>
          LET pid == reqs[r].order.product_id
          IN  /\ reqs[r].order.status = "pending"
              /\ pid \in DOMAIN products
              /\ products' = [products EXCEPT ![pid].stock =
                                products[pid].stock + reqs[r].order.quantity]
              /\ orders' = orders
    /\ (deleteOrder_delete(r) /\ reqs[r].solo) =>
          LET pid == reqs[r].order.product_id
          IN  /\ reqs[r].id \in DOMAIN orders
              /\ orders' = DeleteRow(orders, reqs[r].id)
              /\ products' = products
              /\ reply'.op = "deleteOrder" /\ reply'.resp = 200
              /\ reqs[r].order.status = "pending" =>
                   products[pid].stock = reqs[r].product.stock + reqs[r].order.quantity
    /\ \A t \in Tenants, oid \in OrderIds :
         (deleteOrder_fetch(r, t, oid) /\ OwnOrder(t, oid)) =>
            /\ products' = products
            /\ orders' = orders
            /\ orders[oid].status = "pending" => reqs'[r].pc = "do_product"
            /\ orders[oid].status = "cancelled" => reqs'[r].pc = "do_delete"
    /\ (deleteOrder_product(r) /\ reqs[r].solo) =>
          /\ reqs'[r].pc = "do_restore"
          /\ reqs'[r].product.stock = products[reqs[r].order.product_id].stock
          /\ products' = products
          /\ orders' = orders

\* C6: a deleteOrder that runs with no other request's step in between:
\* for a pending order the restore writes the product's current stock plus the
\* order's quantity and touches nothing else; for a cancelled order no step
\* writes a product; the last step removes the order row, writes no product
\* and answers 200.
C6_DeleteRestoresStock == [][C6_Step]_vars

\* a deleteOrder of a pending order of quantity 2, run on its own, has
\* restored the stock and is about to remove the row
C6_Witness ==
  \E r \in Slots :
    /\ reqs[r].pc = "do_delete"
    /\ reqs[r].solo
    /\ reqs[r].order.status = "pending"
    /\ reqs[r].order.quantity = 2
    /\ products[reqs[r].order.product_id].stock = reqs[r].product.stock + 2

\* --------------------------------------------------------------------
\* what C7 requires of a single step
C7_Step ==
  \A r \in Slots, t \in Tenants, oid \in OrderIds :
    ( /\ deleteOrder_fetch(r, t, oid)
      /\ OwnOrder(t, oid)
      /\ orders[oid].status \in {"confirmed", "processing", "shipped", "delivered"} )
    => /\ reply'.op = "deleteOrder"
       /\ reply'.resp = 409
       /\ ~InFlight(r)'
       /\ orders' = orders
       /\ products' = products

\* C7: deleteOrder on an order of the calling tenant whose status is
\* confirmed, processing, shipped or delivered is answered 409, ends there,
\* and leaves the orders and the products as they were.
C7_DeleteRejected == [][C7_Step]_vars

\* a deleteOrder was answered 409 and a delivered order is stored
C7_Witness ==
  /\ reply.op = "deleteOrder"
  /\ reply.resp = 409
  /\ \E o \in DOMAIN orders : orders[o].status = "delivered"

\* --------------------------------------------------------------------
\* what C8 requires of a single step
C8_Step ==
  \A r \in Slots :
    deleteOrder_delete(r) =>
      \A o \in DOMAIN orders \ DOMAIN orders' :
        orders[o].status \in {"pending", "cancelled"}

\* C8 (as claimed): deleteOrder removes an order row only while the stored
\* status of that row is pending or cancelled.
C8_DeletedOnlyWhileDeletable == [][C8_Step]_vars

\* --------------------------------------------------------------------
\* what C9 requires of a single step
C9_Step ==
  /\ \A r \in Slots, t \in Tenants, pid \in ProdIds :
       (deleteProduct_check(r, t, pid) /\ OwnProduct(t, pid)) =>
          IF \E o \in DOMAIN orders : orders[o].product_id = pid
          THEN /\ reply'.op = "deleteProduct"
               /\ reply'.resp = 409
               /\ ~InFlight(r)'
               /\ products' = products
               /\ orders' = orders
          ELSE /\ reqs'[r].pc = "dp_delete"
               /\ reqs'[r].id = pid
               /\ reqs'[r].retailer = t
  /\ \A r \in Slots :
       (deleteProduct_delete(r) /\ OwnProduct(reqs[r].retailer, reqs[r].id)) =>
          /\ reqs[r].id \notin DOMAIN products'
          /\ \A p \in DOMAIN products \ {reqs[r].id} :
               p \in DOMAIN products' /\ products'[p] = products[p]
          /\ reply'.op = "deleteProduct"
          /\ reply'.resp = 200

\* C9: deleteProduct on a product of the calling tenant: when an order
\* references the product the request is answered 409, ends there and changes
\* nothing; when none does it goes on to the delete, and the delete removes
\* the tenant's product and answers 200.
C9_DeleteProductGuard == [][C9_Step]_vars

\* a deleteProduct was answered 409 while an order references a product
C9_Witness ==
  /\ reply.op = "deleteProduct"
  /\ reply.resp = 409
  /\ \E o \in DOMAIN orders : orders[o].product_id \in DOMAIN products

\* --------------------------------------------------------------------
\* the steps taken by the requests of tenant t
StepBy(t) ==
  \/ \E r \in Slots, p \in Prices, s \in Stocks : createProduct(r, t, p, s)
  \/ \E r \in Slots, pid \in ProdIds : getProduct(r, t, pid)
  \/ \E r \in Slots, pid \in ProdIds, q \in Qtys : createOrder_fetch(r, t, pid, q)
  \/ \E r \in Slots, pid \in ProdIds, b \in Bodies : updateProduct(r, t, pid, b)
  \/ \E r \in Slots, pid \in ProdIds : toggleProductStatus_fetch(r, t, pid)
  \/ \E r \in Slots, pid \in ProdIds : deleteProduct_check(r, t, pid)
  \/ \E r \in Slots, oid \in OrderIds : getOrder(r, t, oid)
  \/ \E r \in Slots, oid \in OrderIds, s \in OrderStatuses : updateOrderStatus(r, t, oid, s)
  \/ \E r \in Slots, oid \in OrderIds : deleteOrder_fetch(r, t, oid)
  \/ \E r \in Slots :
       /\ reqs[r].retailer = t
       /\ \/ createOrder_insert(r) \/ createOrder_stock(r)
          \/ toggleProductStatus_update(r) \/ deleteProduct_delete(r)
          \/ deleteOrder_product(r) \/ deleteOrder_restore(r) \/ deleteOrder_delete(r)

\* what C10 requires of a single step
C10_Step ==
  \A t \in Tenants :
    StepBy(t) =>
      /\ \A p \in DOMAIN products :
           /\ products[p].retailer_id # t => p \in DOMAIN products' /\ products'[p] = products[p]
           /\ p \in DOMAIN products' => products'[p].retailer_id = products[p].retailer_id
      /\ \A o \in DOMAIN orders :
           /\ orders[o].retailer_id # t => o \in DOMAIN orders' /\ orders'[o] = orders[o]
           /\ o \in DOMAIN orders' => orders'[o].retailer_id = orders[o].retailer_id
      /\ reply' # reply => reply'.data \subseteq {t}

\* C10 (as claimed): a step of a request of tenant t changes or removes no
\* product or order of another tenant, changes the owner of no product or
\* order, and answers with rows of t only.
C10_TenantIsolation == [][C10_Step]_vars

\* --------------------------------------------------------------------
\* what C11 requires of a single step
C11_Step ==
  \A r \in Slots, t \in Tenants, pid \in ProdIds, q \in Qtys :
    ( /\ createOrder_fetch(r, t, pid, q)
      /\ \/ pid \notin DOMAIN products
         \/ products[pid].retailer_id # t
         \/ ~products[pid].is_active )
    => /\ reply'.op = "createOrder"
       /\ reply'.resp = 404
       /\ ~InFlight(r)'
       /\ orders' = orders
       /\ products' = products
       /\ nextOrderId' = nextOrderId

\* C11: a createOrder request whose product id has no row, has a row of
\* another tenant, or has an inactive row (whatever deactivated it, and as long
\* as it stays inactive) is answered 404 in that step, ends there, and the step
\* inserts no order and changes no product.
C11_UnavailableProduct == [][C11_Step]_vars

\* a createOrder was answered 404 while the only product ever created is
\* stored, inactive and in stock
C11_Witness ==
  /\ reply.op = "createOrder"
  /\ reply.resp = 404
  /\ nextProductId = 2
  /\ 1 \in DOMAIN products
  /\ ~products[1].is_active
  /\ products[1].stock >= 1

\* --------------------------------------------------------------------
\* no request other than the one in slot r is in flight
Alone(r) == \A s \in Slots \ {r} : ~InFlight(s)

\* what C12 requires of a single step; S is ledger[pid].stock0, the stock the
\* product was created with, for a product written by createOrder only
C12_Step ==
  \A r \in Slots :
    /\ (createOrder_insert(r) /\ reqs[r].solo /\ reqs[r].id \in DOMAIN products) =>
          \A o \in DOMAIN orders' \ DOMAIN orders :
            /\ orders'[o].total_amount = products[reqs[r].id].price * reqs[r].quantity
            /\ reqs[r].quantity <= products[reqs[r].id].stock
    /\ (createOrder_stock(r) /\ reqs[r].solo /\ reqs[r].id \in DOMAIN products) =>
          LET pid == reqs[r].id
          IN  /\ products' = [products EXCEPT ![pid].stock =
                                products[pid].stock - reqs[r].quantity]
              /\ reply'.op = "createOrder" /\ reply'.resp = 201
              /\ (pid \in DOMAIN ledger /\ ledger[pid].sold = 0) =>
                   products'[pid].stock = ledger[pid].stock0 - reqs[r].quantity
    /\ \A t \in Tenants, pid \in ProdIds, q \in Qtys :
         ( /\ createOrder_fetch(r, t, pid, q)
           /\ Alone(r)
           /\ OwnProduct(t, pid) /\ products[pid].is_active
           /\ pid \in DOMAIN ledger
           /\ products[pid].stock = ledger[pid].stock0 - ledger[pid].sold
           /\ q > ledger[pid].stock0 - ledger[pid].sold )
         => /\ reply'.op = "createOrder" /\ reply'.resp = 400
            /\ products' = products
            /\ orders' = orders
    /\ ( /\ deleteOrder_restore(r)
         /\ reqs[r].solo /\ Alone(r)
         /\ reqs[r].order.product_id \in DOMAIN ledger
         /\ ledger[reqs[r].order.product_id].sold = reqs[r].order.quantity )
       => LET pid == reqs[r].order.product_id
          IN  /\ pid \in DOMAIN products
              /\ products'[pid].stock = ledger[pid].stock0

\* C12: in a run where requests do not overlap, on a product written by
\* createOrder only and created with stock S: a createOrder of quantity q is
\* inserted with total = price * q (q <= stock) and writes stock S - q; with
\* the stock at S - (quantity ordered), a createOrder whose quantity exceeds it
\* is answered 400 and leaves the stock; deleting the only order created,
\* while pending, writes the stock back to exactly S.
C12_RoundTrip == [][C12_Step]_vars

\* the fourth request of a sequential run: a product created with stock 2, an
\* order of quantity 2, a createOrder refused for stock, and the deleteOrder of
\* the pending order has written the stock back to 2
C12_Witness ==
  \E r \in Slots :
    /\ started = 4
    /\ reqs[r].pc = "do_delete"
    /\ reqs[r].solo
    /\ reqs[r].order.status = "pending"
    /\ reqs[r].order.quantity = 2
    /\ reqs[r].product.stock = 0
    /\ products[reqs[r].order.product_id].stock = 2
    /\ reply.op = "createOrder"
    /\ reply.resp = 400
    /\ reply.message = "Insufficient stock"

\* --------------------------------------------------------------------
\* what C13 requires of a single step
C13_Step ==
  \A r \in Slots :
    /\ \A t \in Tenants, pid \in ProdIds :
         toggleProductStatus_fetch(r, t, pid) =>
           /\ products' = products
           /\ orders' = orders
           /\ OwnProduct(t, pid) =>
                /\ reqs'[r].pc = "tg_update"
                /\ reqs'[r].product.is_active = products[pid].is_active
    /\ toggleProductStatus_update(r) =>
         LET pid == reqs[r].id
         IN  /\ orders' = orders
             /\ \A p \in DOMAIN products :
                  /\ p \in DOMAIN products'
                  /\ products'[p].retailer_id = products[p].retailer_id
                  /\ products'[p].price = products[p].price
                  /\ products'[p].stock = products[p].stock
                  /\ p # pid => products'[p] = products[p]
             /\ DOMAIN products' = DOMAIN products
             /\ (reqs[r].solo /\ OwnProduct(reqs[r].retailer, pid)) =>
                  /\ products'[pid].is_active = ~products[pid].is_active
                  /\ reply'.op = "toggleProductStatus"
                  /\ reply'.resp = 200

C18_Step ==
  \A r \in Slots, t \in Tenants, oid \in OrderIds, s \in OrderStatuses :
    updateOrderStatus(r, t, oid, s) =>
      /\ products' = products
      /\ ~InFlight(r)'
      /\ reply'.op = "updateOrderStatus"
      /\ IF OwnOrder(t, oid)
         THEN /\ reply'.resp = 200
              /\ orders' = [orders EXCEPT ![oid].status = s]
         ELSE /\ reply'.resp = 404
              /\ orders' = orders

\* C18: updateOrderStatus with any of the six statuses on an order of the
\* calling tenant, whatever its current status, is answered 200 and sets the
\* status to the one requested, changing nothing else; on an order id with no
\* row of the calling tenant it is answered 404 and changes no order.
C18_AnyTransition == [][C18_Step]_vars

\* the fourth request, an updateOrderStatus answered 200, has left the only
\* order ever created with status pending
C18_Witness ==
  /\ started = 4
  /\ nextOrderId = 2
  /\ reply.op = "updateOrderStatus"
  /\ reply.resp = 200
  /\ 1 \in DOMAIN orders
  /\ orders[1].status = "pending"
  /\ Quiescent

\* --------------------------------------------------------------------
\* the last response is a dashboard
DashAnswered == reply.op = "getDashboard" /\ reply.resp = 200

RECURSIVE SumAmounts(_)
SumAmounts(S) ==
  IF S = {} THEN 0
  ELSE LET o == CHOOSE x \in S : TRUE
       IN  orders[o].total_amount + SumAmounts(S \ {o})

\* the orders that count for the revenue of tenant t at time now
RevenueOrders(t, now) ==
  {o \in DOMAIN orders : /\ orders[o].retailer_id = t
                         /\ orders[o].status = "delivered"
                         /\ orders[o].created_at >= now - 30 * TicksPerDay}

\* C14: the revenueLast30Days of a dashboard is the sum, written with two
\* decimals, of total_amount over the orders of the calling tenant that are
\* delivered and were created no earlier than 30 days before the request;
\* older orders, orders of another status and orders of another tenant add nothing.
C14_Revenue ==
  DashAnswered =>
    LET sum == SumAmounts(RevenueOrders(reply.data.store, reply.data.requested))
    IN  reply.data.orderStats.revenueLast30Days =
          [units |-> sum \div 100, decimals |-> sum % 100]

\* a dashboard with revenue 1.75: one delivered order inside the window, and a
\* delivered order of the same tenant that is older than 30 days
C14_Witness ==
  /\ DashAnswered
  /\ reply.data.orderStats.revenueLast30Days = [units |-> 1, decimals |-> 75]
  /\ \E o \in DOMAIN orders :
       /\ orders[o].retailer_id = reply.data.store
       /\ orders[o].status = "delivered"
       /\ orders[o].created_at < reply.data.requested - 30 * TicksPerDay

\* --------------------------------------------------------------------
\* C15: the weeklyOrderChart of a dashboard has exactly 7 entries, for the 7
\* consecutive UTC days that end with the day on which it is computed, oldest
\* first, and the count of each entry is the number of orders of the calling
\* tenant created on that UTC day.
C15_WeeklyChart ==
  DashAnswered =>
    LET chart == reply.data.weeklyOrderChart
        today == DayOf(reply.data.computed)
    IN  /\ Len(chart) = 7
        /\ \A k \in 1..7 :
             /\ chart[k].date = today - (7 - k)
             /\ chart[k].orders =
                  Cardinality({o \in DOMAIN orders :
                                 /\ orders[o].retailer_id = reply.data.store
                                 /\ DayOf(orders[o].created_at) = chart[k].date})

\* a dashboard computed on the day after the request: the last day of its
\* chart has no order, another day has one, and an order of the tenant is
\* older than the chart
C15_Witness ==
  /\ DashAnswered
  /\ DayOf(reply.data.computed) # DayOf(reply.data.requested)
  /\ reply.data.weeklyOrderChart[7].orders = 0
  /\ \E k \in 1..6 : reply.data.weeklyOrderChart[k].orders = 1
  /\ \E o \in DOMAIN orders :
       /\ orders[o].retailer_id = reply.data.store
       /\ DayOf(orders[o].created_at) < reply.data.weeklyOrderChart[1].date

\* --------------------------------------------------------------------
\* list holds the min(10, |S|) products of S with the lowest stock, in
\* ascending order of stock
LowestOf(list, S) ==
  LET ids == {list[i].id : i \in 1..Len(list)}
  IN  /\ Len(list) = IF Cardinality(S) < 10 THEN Cardinality(S) ELSE 10
      /\ Cardinality(ids) = Len(list)
      /\ ids \subseteq S
      /\ \A i \in 1..Len(list) : list[i].stock = products[list[i].id].stock
      /\ \A i, j \in 1..Len(list) : i <= j => list[i].stock <= list[j].stock
      /\ \A p \in S \ ids : \A i \in 1..Len(list) : list[i].stock <= products[p].stock

ActiveProducts(t) ==
  {p \in DOMAIN products : products[p].retailer_id = t /\ products[p].is_active}

\* C16 (as claimed): the lowStockProducts of a dashboard are the
\* min(10, number of active products) active products of the calling tenant
\* with the lowest stock, in ascending order of stock.
C16_LowestOfActive ==
  DashAnswered =>
    LowestOf(reply.data.lowStockProducts, ActiveProducts(reply.data.store))

\* C16 (amended): the lowStockProducts of a dashboard are the active products
\* of the calling tenant whose stock is at most 5, lowest stock first, and
\* when there are more than 10 of them the 10 with the lowest stock.
C16_LowStockList ==
  DashAnswered =>
    LowestOf(reply.data.lowStockProducts,
             {p \in ActiveProducts(reply.data.store) : products[p].stock <= 5})

\* a dashboard that lists 10 products while the tenant has more than 10
\* active products with stock at most 5, and one with more
C16_Witness ==
  /\ DashAnswered
  /\ Len(reply.data.lowStockProducts) = 10
  /\ Cardinality({p \in ActiveProducts(reply.data.store) : products[p].stock <= 5}) > 10
  /\ \E p \in ActiveProducts(reply.data.store) : products[p].stock > 5
  /\ reply.data.lowStockProducts[1].stock < reply.data.lowStockProducts[10].stock

\* --------------------------------------------------------------------
\* what C17 requires of a single step
C17_Step ==
  \A r \in Slots, later \in 0..MaxLater :
    ( /\ getDashboard_respond(r, later)
      /\ \E q \in Fetches : reqs[r].results[q].error # <<>> )
    => /\ reply'.op = "getDashboard"
       /\ reply'.resp >= 400
       /\ reply'.data = {}
       /\ ~InFlight(r)'

\* C17: when at least one of the four queries of a dashboard request was
\* answered with an error, whichever and in whatever order the four were
\* answered, the request is answered with an error status and no statistics.
C17_NoPartialDashboard == [][C17_Step]_vars

\* a dashboard request was answered 400 by the error handler
C17_Witness ==
  /\ reply.op = "getDashboard"
  /\ reply.resp = 400
  /\ reply.message = "Database operation failed"
  /\ reply.data = {}
  /\ Quiescent

\* --------------------------------------------------------------------
\* a step in which a handler throws a store error with this code: the first
\* store call of the handler named in the answer failed and the handler does
\* not answer that error itself, or the insert of a createOrder failed
ThrowsStoreError(code) ==
  \/ /\ started' # started
     /\ reply'.op \in FirstAwaitOps
     /\ ~answeredNotFound(reply'.op, code)
     /\ \E r \in Slots, t \in Tenants : storeError(r, t, reply'.op, code)
  \/ /\ started' = started
     /\ \E r \in Slots : createOrder_insertError(r, code)

\* C20 (as claimed): every store error thrown by a handler is answered 500
\* with the generic message.
C20_Generic500 ==
  [][\A c \in StoreCodes :
       ThrowsStoreError(c) =>
         reply'.resp = 500 /\ reply'.message = "Internal Server Error"]_vars

\* C20 (amended): every store error thrown by a handler is answered with a
\* message fixed by the error handler, never the store's: 409 for code 23505,
\* 400 for every other code, and 500 Internal Server Error only for an error
\* without a code.
C20_FixedMessages ==
  [][\A c \in StoreCodes :
       ThrowsStoreError(c) =>
         /\ reply'.resp = IF c = "" THEN 500 ELSE IF c = "23505" THEN 409 ELSE 400
         /\ reply'.message =
              IF c = "" THEN "Internal Server Error"
              ELSE IF c = "23505" THEN "Resource already exists"
              ELSE IF c = "23503" THEN "Invalid reference - related resource not found"
              ELSE IF c = "23502" THEN "Required field is missing"
              ELSE "Database operation failed"
         /\ reply'.message # "store"]_vars

\* the insert of a createOrder failed and was answered 400 Database operation failed
C20_Witness ==
  /\ reply.op = "createOrder"
  /\ reply.resp = 400
  /\ reply.message = "Database operation failed"
  /\ orders = <<>>

\* --------------------------------------------------------------------
\* what C19 requires of a single step
C19_Step ==
  \A r \in Slots :
    /\ started' # started =>
         \A route \in TenantRoutes, h \in AuthHeaders :
           (token(h) = "" /\ authenticateToken(r, route, h))
             => reply'.resp = 401 /\ reply'.op = Chain[route][Len(Chain[route])]
                /\ ~InFlight(r)'
    /\ (authenticateToken_getUser(r) /\ token(reqs[r].authorization) \notin DOMAIN Sessions)
         => reply'.resp = 401 /\ reply'.op = reqs[r].op /\ ~InFlight(r)'
    /\ (authenticateToken_retailer(r) /\ reqs[r].user \notin DOMAIN Retailers)
         => reply'.resp = 404 /\ reply'.op = reqs[r].op /\ ~InFlight(r)'
    /\ ((middleware(r, TRUE) \/ middleware(r, FALSE) \/ controller(r))
          /\ reqs[r].route \in TenantRoutes)
         => /\ token(reqs[r].authorization) \in DOMAIN Sessions
            /\ Sessions[token(reqs[r].authorization)] \in DOMAIN Retailers
            /\ reqs[r].retailer = Retailers[Sessions[token(reqs[r].authorization)]]
    /\ UNCHANGED <<products, orders>>

\* C19: on every route guarded by authenticateToken a request without a
\* bearer token, or with a token the identity provider rejects, is answered
\* 401, one whose user has no retailer profile is answered 404, and each of
\* these answers ends the request: a middleware or controller behind
\* authenticateToken only ever runs for a token of a registered retailer, as
\* that retailer.
C19_AuthBeforeController == [][C19_Step]_vars

\* a request on a tenant route whose user has no retailer profile was answered 404
C19_Witness ==
  /\ reply.resp = 404
  /\ reply.op = "createOrder"
  /\ reply.message = "Retailer profile not found. Please complete registration."
  /\ Quiescent

\* --------------------------------------------------------------------
\* what C21 requires of a single step
C21_Step ==
  \A r \in Slots, c \in StoreCodes :
    createOrder_stockError(r, c) =>
      /\ reply'.op = "createOrder"
      /\ reply'.resp = 201
      /\ orders' = orders
      /\ \E oid \in DOMAIN orders' :
           /\ orders'[oid].retailer_id = reqs[r].retailer
           /\ orders'[oid].product_id = reqs[r].id
           /\ orders'[oid].quantity = reqs[r].quantity
      /\ products' = products
      /\ (reqs[r].solo /\ reqs[r].id \in DOMAIN products)
           => products'[reqs[r].id].stock = reqs[r].product.stock

\* C21: when the stock update of a createOrder is answered with an error, the
\* request is answered 201, the order row it inserted stays stored and no
\* product row changes; when no other request ran meanwhile, the product's
\* stock is the one the request read at its start.
C21_StockErrorIgnored == [][C21_Step]_vars

\* a createOrder was answered 201 and its order is stored while the stock of
\* the product is still the stock it was created with
C21_Witness ==
  /\ reply.op = "createOrder"
  /\ reply.resp = 201
  /\ DOMAIN orders = {1}
  /\ orders[1].product_id = 1
  /\ products[1].stock = MaxStock
  /\ Quiescent

\* --------------------------------------------------------------------
\* what C22 requires of a single step
C22_Step ==
  \A r \in Slots, ret \in Tenants, th \in Opt(ThemeInputs) :
    (updateTheme(r, ret, th) /\ (th = <<>> \/ th[1] \notin Themes))
      => /\ reply'.op = "updateTheme"
         /\ reply'.resp = 400
         /\ retailers' = retailers

\* C22: after any sequence of register, updateSettings and updateTheme
\* requests the theme of every retailer is one of default, modern, classic,
\* minimal, bold, and an updateTheme with another value, or none, is answered
\* 400 and changes no retailer.
C22_ThemeEnum ==
  /\ [](\A id \in DOMAIN retailers : retailers[id].theme \in Themes)
  /\ [][C22_Step]_vars

\* a retailer has a theme other than the one given at registration, and an
\* updateTheme with a value outside the five was just answered 400
C22_Witness ==
  /\ \E id \in DOMAIN retailers : retailers[id].theme = "bold"
  /\ reply.op = "updateTheme"
  /\ reply.resp = 400
  /\ Quiescent

\* --------------------------------------------------------------------
\* the retailers rows linked to identity u
ProfilesOf(u) == {id \in DOMAIN retailers : retailers[id].user_id = u}

\* C23: once every register request has been answered, every identity
\* created by a registration has exactly one retailers row linked to it.
C23_OneRetailerPerIdentity ==
  Quiescent => \A u \in DOMAIN users : Cardinality(ProfilesOf(u)) = 1

\* --------------------------------------------------------------------
\* what C24 requires of the step that answers a getOrderStats
C24_Step ==
  \A r \in Slots :
    getOrderStats_revenue(r) =>
      LET st      == reply'.data.orderStats
          counted == {o \in DOMAIN reqs[r].statusStats : reqs[r].statusStats[o] = "delivered"}
      IN  /\ reply'.resp = 200
          /\ st.total = st.pending + st.confirmed + st.processing + st.shipped
                        + st.delivered + st.cancelled
          /\ \A o \in DOMAIN reqs[r].statusStats : orders[o].retailer_id = reqs[r].retailer
          /\ reply'.data.totalRevenue = toFixed2(revenueOf(revenueQuery(reqs[r].retailer)))
          /\ reply'.data.totalRevenue = toFixed2(revenueOf(counted))

\* C24: a getOrderStats answer counts the calling tenant's orders in each of
\* the six statuses, its total is the sum of the six counts, its totalRevenue
\* is the sum of total_amount over the tenant's delivered orders, and that
\* revenue is the revenue of exactly the orders the same answer counts as
\* delivered, whatever updateOrderStatus requests run meanwhile.
C24_StatsConsistent == [][C24_Step]_vars

\* --------------------------------------------------------------------
\* C25: for a GET /orders whose query gives page p >= 1 and limit n >= 1, the
\* range requested from the store is offsets (p - 1) * n to p * n - 1 of the
\* tenant's filtered orders, newest first, and the page holds at most n orders.
C25_PageRange ==
  \A r \in Slots :
    (reqs[r].pc = "go_count" /\ reqs[r].page.type = "string"
                             /\ reqs[r].limit.type = "string") =>
      LET p == ValueOf(reqs[r].page.s)
          n == ValueOf(reqs[r].limit.s)
      IN  /\ reqs[r].from = (p - 1) * n
          /\ reqs[r].to = p * n - 1
          /\ Len(reqs[r].data) <= n

\* --------------------------------------------------------------------
\* what C30 requires of the step that answers a getProducts
C30_Step ==
  \A r \in Slots :
    getProducts_count(r) =>
      LET pg == reply'.data.pagination IN
        /\ pg.total = Cardinality(ProductsFilter(reqs[r].retailer, reqs[r].category,
                                                 reqs[r].is_active))
        /\ pg.totalPages = Ceil(pg.total, pg.limit)

\* C30: the pagination of a GET /products answer has total equal to the
\* number of the tenant's products that pass the request's category and
\* is_active filters, and totalPages = ceil(total / limit).
C30_FilteredTotal == [][C30_Step]_vars

\* --------------------------------------------------------------------
\* a createOrder for product pid has read the product and not yet answered
OrderBeingCreated(pid) ==
  \E s \in Slots : /\ reqs[s].op = "createOrder"
                   /\ reqs[s].pc \in {"co_insert", "co_stock"}
                   /\ reqs[s].id = pid

\* what C26 requires of the step that deletes a product
C26_Step ==
  \A r \in Slots :
    (deleteProduct_delete(r) /\ DOMAIN products' # DOMAIN products) =>
      \A pid \in DOMAIN products \ DOMAIN products' :
        /\ ~HasOrders(pid)
        /\ ~OrderBeingCreated(pid)

\* C26: under any interleaving of createOrder and deleteProduct requests every
\* stored order references a stored product, and no product is removed while
\* an order references it or a createOrder for it is under way.
C26_NoOrphanOrders ==
  /\ [](\A o \in DOMAIN orders : orders[o].product_id \in DOMAIN products)
  /\ [][C26_Step]_vars

\* --------------------------------------------------------------------
\* the quantities of the orders 1..n of the deleteOrder runs
RECURSIVE RestoreQuantities(_)
RestoreQuantities(n) ==
  IF n = 0 THEN 0 ELSE RestoreOrder(n).quantity + RestoreQuantities(n - 1)

\* C27: under any interleaving of deleteOrder requests the stock of the
\* product is increased by the quantity of an order at most once per order:
\* it never exceeds its first value plus the quantities of all the orders.
C27_RestoredOnce ==
  products[1].stock <= RestoreStock0 + RestoreQuantities(MaxRestoreOrders)

\* --------------------------------------------------------------------
\* what C28 requires of a single step
C28_Step ==
  \A r \in Slots, t \in Tenants, oid \in 1..MaxStatsOrders, st \in OrderStatuses :
    updateOrderStatus(r, t, oid, st) =>
      /\ products' = products
      /\ DOMAIN orders' = DOMAIN orders
      /\ \A o \in DOMAIN orders :
           /\ o # oid => orders'[o] = orders[o]
           /\ [orders'[o] EXCEPT !.status = orders[o].status] = orders[o]

\* C28: an updateOrderStatus, whatever the old and the new status, changes no
\* product and no order other than the targeted one, and of the targeted
\* order nothing but the status: quantity, unit_price, total_amount and
\* product_id stay.
C28_StatusOnly == [][C28_Step]_vars

\* an order first pending was cancelled while every stock is as it was
C28_Witness ==
  /\ reply.op = "updateOrderStatus"
  /\ reply.resp = 200
  /\ orders[1].status = "cancelled"
  /\ orders[1].quantity = StatsOrder(1).quantity
  /\ products = DashShop

\* --------------------------------------------------------------------
\* what C29 requires of a single step
C29_Step ==
  \A r \in Slots :
    deleteProduct_delete(r) =>
      IF OwnProduct(reqs[r].retailer, reqs[r].id)
      THEN reply'.resp = 200 => reqs[r].id \notin DOMAIN products'
      ELSE reply'.resp >= 400 /\ products' = products /\ orders' = orders

\* C29: deleteProduct answers with success only when a product of the calling
\* tenant with the given id was removed; for an id that is no product of the
\* calling tenant it answers with a failure and changes nothing.
C29_DeleteReportsFailure == [][C29_Step]_vars

====
